---- MODULE Spec2Model ----
(***************************************************************************)
(* Model of the spreadsheet ingestion and scrape-merge pipeline of         *)
(* agendacultural: the Sheet Client with its versioned in-memory cache     *)
(* (src/src/utils/googleSheets.ts) and the scraper with its merge cycle    *)
(* (src/src/utils/scraper.ts).                                             *)
(*                                                                         *)
(* JavaScript values are tagged records, strings are sequences of          *)
(* one-character strings, and an operation that can throw returns          *)
(* [ok |-> TRUE, val |-> v] or [ok |-> FALSE, err |-> name].               *)
(***************************************************************************)
EXTENDS Integers, Sequences, FiniteSets, TLC

----------------------------------------------------------------------------
(* Bounds of the model.                                                    *)

\* page-rendering reads (getGoogleSheetData) that may be in flight at once
MaxCalls == 2
\* successful refreshes in one behaviour (caps currentVersion)
MaxVersion == 3
\* milliseconds the clock advances in one Tick
TickMs == 60000
\* Tick steps in one behaviour
MaxTicks == 2
\* scrapeAndUpdateEvents cycles started in one behaviour
MaxCycles == 2

----------------------------------------------------------------------------
(* JavaScript values.                                                      *)

Undef == [t |-> "undefined"]
Null == [t |-> "null"]
NaN == [t |-> "nan"]
Str(s) == [t |-> "string", s |-> s]
Num(n) == [t |-> "number", n |-> n]
Arr(a) == [t |-> "array", a |-> a]
Obj(f) == [t |-> "object", f |-> f]
\* a Date object: days since 1970-01-01 and seconds into that day (UTC)
DateV(d, s) == [t |-> "date", day |-> d, sec |-> s]
InvalidDate == [t |-> "date", invalid |-> TRUE]

Ok(v) == [ok |-> TRUE, val |-> v]
Throw(e) == [ok |-> FALSE, err |-> e]

\* ToBoolean, as used by || and if
Truthy(v) ==
  CASE v.t = "undefined" -> FALSE
    [] v.t = "null" -> FALSE
    [] v.t = "nan" -> FALSE
    [] v.t = "string" -> v.s # <<>>
    [] v.t = "number" -> v.n # 0
    [] OTHER -> TRUE

\* a || b
OrElse(a, b) == IF Truthy(a) THEN a ELSE b

\* a === b: two Date objects, arrays or objects built separately are never
\* the same object; NaN equals nothing
StrictEq(a, b) ==
  /\ a.t = b.t
  /\ CASE a.t = "string" -> a.s = b.s
       [] a.t = "number" -> a.n = b.n
       [] a.t \in {"undefined", "null"} -> TRUE
       [] OTHER -> FALSE

\* x.name for a value x that is neither null nor undefined
Prop(x, name) ==
  IF x.t = "object" /\ name \in DOMAIN x.f THEN x.f[name] ELSE Undef

\* x.name, a TypeError when x is null or undefined
GetProp(x, name) ==
  IF x.t \in {"undefined", "null"} THEN Throw("TypeError") ELSE Ok(Prop(x, name))

\* x?.name
OptProp(x, name) ==
  IF x.t \in {"undefined", "null"} THEN Undef ELSE Prop(x, name)

\* x[i] with a zero-based index, a TypeError when x is null or undefined
Index(x, i) ==
  IF x.t \in {"undefined", "null"} THEN Throw("TypeError")
  ELSE IF x.t = "array" /\ i < Len(x.a) THEN Ok(x.a[i + 1])
  ELSE Ok(Undef)

----------------------------------------------------------------------------
(* Strings.                                                                *)

Digits == {"0", "1", "2", "3", "4", "5", "6", "7", "8", "9"}

DigitVal(c) ==
  CASE c = "0" -> 0 [] c = "1" -> 1 [] c = "2" -> 2 [] c = "3" -> 3
    [] c = "4" -> 4 [] c = "5" -> 5 [] c = "6" -> 6 [] c = "7" -> 7
    [] c = "8" -> 8 [] c = "9" -> 9

DigitChar(n) ==
  CASE n = 0 -> "0" [] n = 1 -> "1" [] n = 2 -> "2" [] n = 3 -> "3"
    [] n = 4 -> "4" [] n = 5 -> "5" [] n = 6 -> "6" [] n = 7 -> "7"
    [] n = 8 -> "8" [] n = 9 -> "9"

\* s.substring(n)
Substring(s, n) == SubSeq(s, n + 1, Len(s))

\* s.slice(0, -n)
SliceEnd(s, n) == SubSeq(s, 1, Len(s) - n)

\* position of the first sep in s, 0 when there is none
RECURSIVE FirstAt(_, _, _)
FirstAt(s, sep, i) ==
  IF i > Len(s) THEN 0
  ELSE IF s[i] = sep THEN i
  ELSE FirstAt(s, sep, i + 1)

\* s.split(sep) for a one-character separator
RECURSIVE Split(_, _)
Split(s, sep) ==
  LET p == FirstAt(s, sep, 1) IN
  IF p = 0 THEN <<s>>
  ELSE <<SubSeq(s, 1, p - 1)>> \o Split(SubSeq(s, p + 1, Len(s)), sep)

\* s.trim() for strings whose only white space is the space character
RECURSIVE TrimStart(_)
TrimStart(s) ==
  IF s # <<>> /\ s[1] = " " THEN TrimStart(Tail(s)) ELSE s

RECURSIVE TrimEnd(_)
TrimEnd(s) ==
  IF s # <<>> /\ s[Len(s)] = " " THEN TrimEnd(SubSeq(s, 1, Len(s) - 1)) ELSE s

Trim(s) == TrimEnd(TrimStart(s))

RECURSIVE DecimalValue(_)
DecimalValue(s) ==
  IF s = <<>> THEN 0
  ELSE 10 * DecimalValue(SubSeq(s, 1, Len(s) - 1)) + DigitVal(s[Len(s)])

AllDigits(s) == \A i \in 1..Len(s) : s[i] \in Digits

\* Number(s) for a string of digits, letters, spaces and punctuation without
\* sign, point or exponent: white space is trimmed, the empty string is 0,
\* a run of digits is its decimal value, anything else is NaN
ToNumber(s) ==
  LET u == Trim(s) IN
  IF u = <<>> THEN Num(0)
  ELSE IF AllDigits(u) THEN Num(DecimalValue(u))
  ELSE NaN

\* Number(undefined) is NaN: the element a destructuring finds missing
NumberAt(parts, i) == IF i <= Len(parts) THEN ToNumber(parts[i]) ELSE NaN

IsNaN(v) == v.t = "nan"

\* n.toString() for a non-negative integer
RECURSIVE NumToString(_)
NumToString(n) ==
  IF n < 10 THEN <<DigitChar(n)>>
  ELSE NumToString(n \div 10) \o <<DigitChar(n % 10)>>

\* s.padStart(2, '0')
PadStart2(s) == IF Len(s) >= 2 THEN s ELSE IF Len(s) = 1 THEN <<"0">> \o s ELSE <<"0", "0">>

----------------------------------------------------------------------------
(* Dates.                                                                  *)

\* days from 1970-01-01 to the first day of month m (1..12) of year y
DaysFromCivil(y, m) ==
  LET yy == IF m <= 2 THEN y - 1 ELSE y
      era == yy \div 400
      yoe == yy - era * 400
      mp == (m + 9) % 12
      doy == (153 * mp + 2) \div 5
      doe == yoe * 365 + yoe \div 4 - yoe \div 100 + doy
  IN era * 146097 + doe - 719468

\* new Date(Date.UTC(year, monthIndex, day)): a year of 0..99 is 1900 + year,
\* a month index outside 0..11 and a day outside the month carry over
DateUTC(year, monthIndex, day) ==
  LET y0 == IF year >= 0 /\ year <= 99 THEN 1900 + year ELSE year
      y == y0 + monthIndex \div 12
      m == monthIndex % 12
  IN DateV(DaysFromCivil(y, m + 1) + (day - 1), 0)

----------------------------------------------------------------------------
(* Row Normalizer, position-indexed (getGoogleSheetData, the row mapping). *)

\* cells[i]?.v || fallback
CellOr(cells, i, fallback) ==
  LET c == Index(cells, i) IN
  IF ~c.ok THEN c ELSE Ok(OrElse(OptProp(c.val, "v"), fallback))

\* ParseDateCell taking the month number for the month index
ParseDateCellMonthIndex(dateStr) ==
  IF ~Truthy(dateStr) THEN Ok(Null)
  ELSE IF dateStr.t # "string" THEN Throw("TypeError")
  ELSE LET parts == Split(dateStr.s, "/")
           day == NumberAt(parts, 1)
           month == NumberAt(parts, 2)
           year == NumberAt(parts, 3)
       IN IF ~IsNaN(day) /\ ~IsNaN(month) /\ ~IsNaN(year)
          THEN Ok(DateUTC(year.n, month.n, day.n))
          ELSE Ok(Null)

\* the date column: split on '/', day/month/year as numbers, midnight UTC
ParseDateCell(dateStr) ==
  IF ~Truthy(dateStr) THEN Ok(Null)
  ELSE IF dateStr.t # "string" THEN Throw("TypeError")
  ELSE LET parts == Split(dateStr.s, "/")
           day == NumberAt(parts, 1)
           month == NumberAt(parts, 2)
           year == NumberAt(parts, 3)
       IN IF ~IsNaN(day) /\ ~IsNaN(month) /\ ~IsNaN(year)
          THEN Ok(DateUTC(year.n, month.n - 1, day.n))
          ELSE Ok(Null)

\* the time column: split on ':', both parts numbers, zero-padded HH:MM
ParseTimeCell(timeStr) ==
  IF ~Truthy(timeStr) THEN Ok(Null)
  ELSE IF timeStr.t # "string" THEN Throw("TypeError")
  ELSE LET parts == Split(timeStr.s, ":")
           hours == NumberAt(parts, 1)
           minutes == NumberAt(parts, 2)
       IN IF ~IsNaN(hours) /\ ~IsNaN(minutes)
          THEN Ok(Str(PadStart2(NumToString(hours.n)) \o <<":">>
                      \o PadStart2(NumToString(minutes.n))))
          ELSE Ok(Null)

\* the callback of rows.map: one record per row, a TypeError when the row or
\* its cell list is missing or a date or time cell is not a string
NormalizeRow(row) ==
  LET c == GetProp(row, "c") IN
  IF ~c.ok THEN c
  ELSE
    LET cells == c.val
        evento == CellOr(cells, 0, Null)
    IN IF ~evento.ok THEN evento
       ELSE
         LET dateStr == CellOr(cells, 1, Str(<<>>))
             timeStr == CellOr(cells, 2, Str(<<>>))
             date == ParseDateCell(dateStr.val)
             time == ParseTimeCell(timeStr.val)
         IN IF ~date.ok THEN date
            ELSE IF ~time.ok THEN time
            ELSE Ok([evento |-> evento.val,
                     date |-> date.val,
                     time |-> time.val,
                     local |-> CellOr(cells, 3, Null).val,
                     tipo_evento |-> CellOr(cells, 4, Null).val,
                     url |-> CellOr(cells, 5, Null).val,
                     flyer |-> CellOr(cells, 6, Null).val])

RECURSIVE MapRows(_)
MapRows(rows) ==
  IF rows = <<>> THEN Ok(<<>>)
  ELSE LET h == NormalizeRow(Head(rows)) IN
       IF ~h.ok THEN h
       ELSE LET r == MapRows(Tail(rows)) IN
            IF ~r.ok THEN r ELSE Ok(<<h.val>> \o r.val)

\* json.table.rows, json.table.cols.map(...), rows.map(...)
NormalizeTable(json) ==
  LET table == GetProp(json, "table") IN
  IF ~table.ok THEN table
  ELSE LET rows == GetProp(table.val, "rows") IN
       IF ~rows.ok THEN rows
       ELSE LET cols == GetProp(table.val, "cols") IN
            IF ~cols.ok THEN cols
            ELSE IF cols.val.t # "array" THEN Throw("TypeError")
            ELSE IF \E i \in 1..Len(cols.val.a) :
                      cols.val.a[i].t \in {"undefined", "null"}
                 THEN Throw("TypeError")
            ELSE IF rows.val.t # "array" THEN Throw("TypeError")
            ELSE MapRows(rows.val.a)

----------------------------------------------------------------------------
(* Response Decoder and the responses of the spreadsheet endpoint.         *)

\* text.substring(47)
PREFIX_LEN == 47
\* .slice(0, -2)
SUFFIX_LEN == 2

sShowX == <<"S", "h", "o", "w", " ", "X">>
sJazz == <<"J", "a", "z", "z">>
sFeira == <<"F", "e", "i", "r", "a">>
sTeatro == <<"T", "e", "a", "t", "r", "o">>
sDate1 == <<"2", "5", "/", "1", "2", "/", "2", "0", "2", "4">>
sDate2 == <<"0", "1", "/", "0", "1", "/", "2", "0", "2", "4">>
sBadDate == <<"x", "x", "/", "1", "2", "/", "2", "0", "2", "4">>
sTime1 == <<"2", "0", ":", "0", "0">>
sTime2 == <<"9", ":", "5">>
sPoster == <<"p", "o", "s", "t", "e", "r", ".", "j", "p", "g">>

Cell(v) == Obj([v |-> v])
Row(cells) == Obj([c |-> Arr(cells)])
Col(label) == Obj([label |-> Str(label)])
Table(cols, rows) == Obj([table |-> Obj([cols |-> Arr(cols), rows |-> Arr(rows)])])

SheetCols == <<Col(<<"E">>), Col(<<"D">>), Col(<<"H">>)>>

\* the parsed JSON documents an endpoint response may carry
DocValue(d) ==
  CASE d = "tableA" ->
         Table(SheetCols,
               <<Row(<<Cell(Str(sShowX)), Cell(Str(sDate2)), Cell(Str(sTime1)),
                       Cell(Str(sTeatro)), Null, Null, Cell(Str(sPoster))>>)>>)
    [] d = "tableB" ->
         Table(SheetCols,
               <<Row(<<Cell(Str(sJazz)), Cell(Str(sDate2)), Cell(Str(sTime2))>>),
                 Row(<<Cell(Str(sFeira)), Cell(Str(sBadDate)), Cell(Str(sTime1)),
                       Cell(Str(sTeatro))>>),
                 Row(<<Null, Cell(Str(sDate1)), Cell(Str(sTime1)),
                       Cell(Str(sTeatro))>>)>>)
    [] d = "tableEmpty" -> Table(SheetCols, <<>>)
    [] d = "tableNumDate" ->
         Table(SheetCols, <<Row(<<Cell(Str(sShowX)), Cell(Num(45651))>>)>>)
    [] d = "tableNullRow" -> Table(SheetCols, <<Null>>)
    [] d = "noTable" -> Obj([status |-> Str(<<"e", "r", "r", "o", "r">>)])
    [] d = "noCols" -> Obj([table |-> Obj([rows |-> Arr(<<>>)])])
    [] d = "noRows" -> Obj([table |-> Obj([cols |-> Arr(SheetCols)])])

DocNames == {"tableA", "tableB", "tableEmpty", "tableNumDate", "tableNullRow",
             "noTable", "noCols", "noRows"}

\* The source text of a document: its opening brace, its members (one
\* element standing for the characters between the braces) and its closing
\* brace.
DocSrc(d) == <<"{", d, "}">>

\* JSON.parse over the texts of the model: a document's source text parses
\* to the document; every other text here is not JSON (a SyntaxError)
JSONParse(s) ==
  IF Len(s) = 3 /\ s[1] = "{" /\ s[3] = "}" /\ s[2] \in DocNames
  THEN Ok(DocValue(s[2]))
  ELSE Throw("SyntaxError")

Filler(n, ch) == [i \in 1..n |-> ch]

\* the endpoint's 47-character prefix and its suffix ");"
GvizPrefix == Filler(47, "g")
GvizSuffix == <<")", ";">>

\* the response bodies the endpoint may return
ResponseText(r) ==
  CASE r.kind = "framed" -> GvizPrefix \o DocSrc(r.doc) \o GvizSuffix
    [] r.kind = "shortPrefix" -> Filler(46, "g") \o DocSrc(r.doc) \o GvizSuffix
    [] r.kind = "longSuffix" -> GvizPrefix \o DocSrc(r.doc) \o <<")", ";", " ">>
    [] r.kind = "bare" -> DocSrc(r.doc)
    [] r.kind = "html" -> Filler(60, "h")
    [] r.kind = "empty" -> <<>>

Responses ==
  [kind : {"framed"}, doc : DocNames]
    \cup [kind : {"shortPrefix", "longSuffix", "bare"}, doc : {"tableA"}]
    \cup [kind : {"html", "empty"}, doc : {"none"}]

\* Decode stripping one character less of the prefix
DecodeShortPrefix(text) ==
  JSONParse(SliceEnd(Substring(text, PREFIX_LEN - 1), SUFFIX_LEN))

\* JSON.parse(text.substring(47).slice(0, -2))
Decode(text) == JSONParse(SliceEnd(Substring(text, PREFIX_LEN), SUFFIX_LEN))

\* the try block from the response text to the transformed data, with the
\* stage that threw
ProcessText(text) ==
  LET json == Decode(text) IN
  IF ~json.ok THEN [ok |-> FALSE, err |-> json.err, stage |-> "decode"]
  ELSE LET data == NormalizeTable(json.val) IN
       IF ~data.ok THEN [ok |-> FALSE, err |-> data.err, stage |-> "normalize"]
       ELSE data

\* ProcessText of every response of the model, tabulated
Processed == [r \in Responses |-> ProcessText(ResponseText(r))] @@ <<>>

\* the bodies the endpoint returns to the calls of the state machine
SheetResponses ==
  [kind : {"framed"}, doc : {"tableA", "tableB", "tableNumDate", "noTable"}]
    \cup [kind : {"shortPrefix"}, doc : {"tableA"}]
    \cup [kind : {"html"}, doc : {"none"}]

----------------------------------------------------------------------------
(* Page Scraper and Merge/Dedup Engine (scraper.ts), the pure part.        *)

\* days in month m (1..12) of year y
MonthDays(y, m) ==
  IF m = 12 THEN 31 ELSE DaysFromCivil(y, m + 1) - DaysFromCivil(y, m)

\* <<year, month, day>> of the day z days after 1970-01-01
CivilFromDays(z) ==
  LET z1 == z + 719468
      era == z1 \div 146097
      doe == z1 - era * 146097
      yoe == (doe - doe \div 1460 + doe \div 36524 - doe \div 146096) \div 365
      doy == doe - (365 * yoe + yoe \div 4 - yoe \div 100)
      mp == (5 * doy + 2) \div 153
      d == doy - (153 * mp + 2) \div 5 + 1
      m == IF mp < 10 THEN mp + 3 ELSE mp - 9
      y == yoe + era * 400 + (IF m <= 2 THEN 1 ELSE 0)
  IN <<y, m, d>>

DigitsAt(s, from, to) == \A i \in from..to : s[i] \in Digits

\* new Date(s) for the strings the scraper builds: YYYY-MM-DDTHH:MM:SSZ with
\* legal field values is that instant, any other string here is no date
ParseDateString(s) ==
  IF /\ Len(s) = 20
     /\ DigitsAt(s, 1, 4) /\ s[5] = "-" /\ DigitsAt(s, 6, 7) /\ s[8] = "-"
     /\ DigitsAt(s, 9, 10) /\ s[11] = "T" /\ DigitsAt(s, 12, 13)
     /\ s[14] = ":" /\ DigitsAt(s, 15, 16) /\ s[17] = ":"
     /\ DigitsAt(s, 18, 19) /\ s[20] = "Z"
  THEN LET y == DecimalValue(SubSeq(s, 1, 4))
           m == DecimalValue(SubSeq(s, 6, 7))
           d == DecimalValue(SubSeq(s, 9, 10))
           h == DecimalValue(SubSeq(s, 12, 13))
           mi == DecimalValue(SubSeq(s, 15, 16))
           se == DecimalValue(SubSeq(s, 18, 19))
       IN IF /\ m \in 1..12 /\ d >= 1 /\ d <= MonthDays(y, m)
             /\ mi <= 59 /\ se <= 59
             /\ (h <= 23 \/ (h = 24 /\ mi = 0 /\ se = 0))
          THEN DateV(DaysFromCivil(y, m) + (d - 1) + (IF h = 24 THEN 1 ELSE 0),
                     (IF h = 24 THEN 0 ELSE h * 3600) + mi * 60 + se)
          ELSE InvalidDate
  ELSE InvalidDate

Pad2(n) == PadStart2(NumToString(n))
Pad4(n) ==
  LET t == NumToString(n) IN Filler(4 - Len(t), "0") \o t

\* d.toISOString(): a RangeError for an invalid date
ToISOString(d) ==
  IF "invalid" \in DOMAIN d THEN Throw("RangeError")
  ELSE LET c == CivilFromDays(d.day) IN
       Ok(Pad4(c[1]) \o <<"-">> \o Pad2(c[2]) \o <<"-">> \o Pad2(c[3])
          \o <<"T">> \o Pad2(d.sec \div 3600) \o <<":">>
          \o Pad2((d.sec % 3600) \div 60) \o <<":">> \o Pad2(d.sec % 60)
          \o <<".", "0", "0", "0", "Z">>)

sUndefined == <<"u", "n", "d", "e", "f", "i", "n", "e", "d">>
sElCabong == <<"E", "l", " ", "C", "a", "b", "o", "n", "g">>
sDefaultImage ==
  <<"/", "i", "m", "a", "g", "e", "s", "/", "a", "s", "t", "r", "o", "-",
    "p", "o", "s", "t", ".", "j", "p", "g">>

\* ScrapeElement taking the image source as it is, without the default
ScrapeElementNoDefault(el) ==
  LET title == Trim(el.titulo)
      dateTime == Trim(el.data)
      parts == Split(dateTime, " ")
      date == parts[1]
      time == IF Len(parts) >= 2 THEN parts[2] ELSE sUndefined
      stamp == date \o <<"T">> \o time \o <<":", "0", "0", "Z">>
      startDate == ToISOString(ParseDateString(stamp))
      endDate == ToISOString(ParseDateString(stamp))
  IN IF ~startDate.ok THEN startDate
     ELSE IF ~endDate.ok THEN endDate
     ELSE Ok([eventName |-> Str(title),
              tags |-> <<>>,
              startDate |-> Str(startDate.val),
              endDate |-> Str(endDate.val),
              location |-> Str(sElCabong),
              description |-> Str(Trim(el.descricao)),
              image |-> el.src,
              registrationLink |-> Undef])

\* the callback of $('.evento').each for one element: its title, date text,
\* description and image source become one EventData
ScrapeElement(el) ==
  LET title == Trim(el.titulo)
      dateTime == Trim(el.data)
      parts == Split(dateTime, " ")
      date == parts[1]
      time == IF Len(parts) >= 2 THEN parts[2] ELSE sUndefined
      stamp == date \o <<"T">> \o time \o <<":", "0", "0", "Z">>
      startDate == ToISOString(ParseDateString(stamp))
      endDate == ToISOString(ParseDateString(stamp))
  IN IF ~startDate.ok THEN startDate
     ELSE IF ~endDate.ok THEN endDate
     ELSE Ok([eventName |-> Str(title),
              tags |-> <<>>,
              startDate |-> Str(startDate.val),
              endDate |-> Str(endDate.val),
              location |-> Str(sElCabong),
              description |-> Str(Trim(el.descricao)),
              image |-> OrElse(OrElse(el.src, Undef), Str(sDefaultImage)),
              registrationLink |-> Undef])

\* scrapeEvents after axios.get resolved: the elements the selector matches,
\* in document order; an element that throws ends the scrape with its error
RECURSIVE ScrapeEvents(_)
ScrapeEvents(elements) ==
  IF elements = <<>> THEN Ok(<<>>)
  ELSE LET h == ScrapeElement(Head(elements)) IN
       IF ~h.ok THEN h
       ELSE LET r == ScrapeEvents(Tail(elements)) IN
            IF ~r.ok THEN r ELSE Ok(<<h.val>> \o r.val)

\* row.name of a row object, undefined when the row has no such property
Field(row, name) == IF name \in DOMAIN row THEN row[name] ELSE Undef

\* tags.join(', ')
RECURSIVE Join(_)
Join(tags) ==
  IF tags = <<>> THEN <<>>
  ELSE IF Len(tags) = 1 THEN tags[1]
  ELSE tags[1] \o <<",", " ">> \o Join(Tail(tags))

\* ExistsInSheet comparing the name alone
ExistsInSheetByName(event, existingData) ==
  \E i \in 1..Len(existingData) :
    StrictEq(Field(existingData[i], "evento"), event.eventName)

\* the .some(...) of filterNewEvents: a row of the sheet with the event's
\* name and start, both compared with ===
ExistsInSheet(event, existingData) ==
  \E i \in 1..Len(existingData) :
    /\ StrictEq(Field(existingData[i], "evento"), event.eventName)
    /\ StrictEq(Field(existingData[i], "horario_de_inicio"), event.startDate)

\* ToSheetRow copying the registration link as it is, without the default
ToSheetRowNoDefault(event) ==
  [evento |-> event.eventName,
   tipo_de_evento |-> Str(Join(event.tags)),
   horario_de_inicio |-> event.startDate,
   horario_de_termino |-> event.endDate,
   local |-> event.location,
   descricao |-> event.description,
   flyer |-> event.image,
   link_de_inscricao |-> event.registrationLink]

\* the .map(...) of filterNewEvents: the event in the sheet's columns
\* (horario_de_inicio, horario_de_termino, descricao and link_de_inscricao
\* stand for the accented column names)
ToSheetRow(event) ==
  [evento |-> event.eventName,
   tipo_de_evento |-> Str(Join(event.tags)),
   horario_de_inicio |-> event.startDate,
   horario_de_termino |-> event.endDate,
   local |-> event.location,
   descricao |-> event.description,
   flyer |-> event.image,
   link_de_inscricao |-> OrElse(event.registrationLink, Str(<<>>))]

RECURSIVE FilterMap(_, _)
FilterMap(newEvents, existingData) ==
  IF newEvents = <<>> THEN <<>>
  ELSE (IF ExistsInSheet(Head(newEvents), existingData) THEN <<>>
        ELSE <<ToSheetRow(Head(newEvents))>>)
       \o FilterMap(Tail(newEvents), existingData)

\* filterNewEvents(newEvents, existingData)
FilterNewEvents(newEvents, existingData) == FilterMap(newEvents, existingData)

\* the elements the selector .evento matches on the pages the scrape target
\* may serve
sIso1 == <<"2", "0", "2", "4", "-", "0", "1", "-", "0", "1", " ", "2", "0", ":", "0", "0">>
sIso2 == <<"2", "0", "2", "4", "-", "1", "2", "-", "2", "5", " ", "2", "1", ":", "3", "0">>

ElShowX ==
  [titulo |-> <<" ">> \o sShowX \o <<" ">>, data |-> sIso1,
   descricao |-> <<"d", "1">>, src |-> Undef]
ElJazz ==
  [titulo |-> sJazz, data |-> sIso2, descricao |-> <<"d", "2">>,
   src |-> Str(<<"j", ".", "p", "n", "g">>)]
ElNoDate ==
  [titulo |-> sFeira, data |-> <<>>, descricao |-> <<>>, src |-> Undef]

PageIds == {"two", "one", "empty", "broken"}

PageElements(page) ==
  CASE page = "two" -> <<ElShowX, ElJazz>>
    [] page = "one" -> <<ElShowX>>
    [] page = "empty" -> <<>>
    [] page = "broken" -> <<ElJazz, ElNoDate>>

\* ScrapeEvents of every page of the model, tabulated
Scraped == [page \in PageIds |-> ScrapeEvents(PageElements(page))] @@ <<>>

----------------------------------------------------------------------------
(* Sheet Cache and Sheet Client state.                                     *)

VARIABLES
  now,             \* Date.now()
  cache,           \* the Map: cache key -> [data, timestamp, version]
  currentVersion,
  lastModified,
  calls,           \* the getGoogleSheetData invocations, by slot
  assigned,        \* history: the versions given to cache entries so far
  ev,              \* history: what the step just taken started or returned
  cycle,           \* the scrapeAndUpdateEvents invocation
  filt,            \* filterNewEvents applied on its own: inputs and result
  pure             \* another function applied on its own: input and result

vars ==
  <<now, cache, currentVersion, lastModified, calls, assigned, ev, cycle, filt,
    pure>>

POLL_INTERVAL == 60000

SHEET_ID == "1184qmC-7mpZtpg15R--il4K3tVxSTAcJUZxpWf9KFAs"
\* the tab the event pages read (the default gid) and the tab the index page
\* and the merge cycle read
DefaultGid == "0"
EventsGid == "2043142206"
Gids == {DefaultGid, EventsGid}

\* `${sheetId}-${gid}`
CacheKey(sheetId, gid) == sheetId \o "-" \o gid

Keys == {CacheKey(SHEET_ID, g) : g \in Gids}

\* The invocations of getGoogleSheetData in flight, by slot: slot 0 carries
\* the merge cycle's sheet read, slots 1..MaxCalls the reads of page
\* rendering and the last slot the refetch of handleWebhookUpdate (one merge
\* cycle and one webhook update run at a time).
CycleCall == 0
PageCalls == 1..MaxCalls
WebhookCall == MaxCalls + 1
CallIds == PageCalls \cup {WebhookCall}

\* who called the invocation in slot c
Via(c) ==
  IF c = CycleCall THEN "cycle" ELSE IF c = WebhookCall THEN "webhook" ELSE "page"

NoResp == [kind |-> "none", doc |-> "none"]
NoEntry == [version |-> 0]
NoEvent == [type |-> "none"]

\* An invocation: where it is suspended, its cacheKey and shouldRefresh, the
\* fetches it has issued and, as history, whether another invocation has
\* written its key since it started, whether handleWebhookUpdate has
\* deleted its key since it issued its fetch and whether it is the refetch
\* of a handleWebhookUpdate that has deleted an entry.
IdleCall ==
  [pc |-> "idle", key |-> "", shouldRefresh |-> FALSE, fetches |-> 0,
   raced |-> FALSE, stale |-> FALSE, had |-> FALSE]

\* page slots are interchangeable: a new read takes the lowest idle one
FreeSlot(c) ==
  /\ calls[c].pc = "idle"
  /\ \A d \in PageCalls : d < c => calls[d].pc # "idle"

\* the invocations suspended at an await
InFlight == {d \in DOMAIN calls : calls[d].pc # "idle"}

\* every successful refresh increments currentVersion: invocations start
\* only while those in flight, and the read a scraping merge cycle is about
\* to make, cannot take it past MaxVersion
MayStart ==
  currentVersion + Cardinality(InFlight)
    + (IF cycle.pc = "scrape" THEN 1 ELSE 0) < MaxVersion

\* cache.has(k)
Has(cch, k) == k \in DOMAIN cch

\* cache.get(k), NoEntry standing for undefined
Get(cch, k) == IF Has(cch, k) THEN cch[k] ELSE NoEntry

\* ShouldRefresh with the age of the key's own entry for the global clock
ShouldRefreshPerKey(cch, k, t, lm) ==
  ~Has(cch, k) \/ (t - cch[k].timestamp) > POLL_INTERVAL

\* !cache.has(cacheKey) || (now - lastModified) > POLL_INTERVAL
ShouldRefresh(cch, k, t, lm) == ~Has(cch, k) \/ (t - lm) > POLL_INTERVAL

\* CacheSet keeping the entry a key already has
CacheSetIfAbsent(cch, k, entry) ==
  IF Has(cch, k) THEN cch
  ELSE [x \in DOMAIN cch \cup {k} |-> IF x = k THEN entry ELSE cch[x]]

\* cache.set(k, entry)
CacheSet(cch, k, entry) ==
  [x \in DOMAIN cch \cup {k} |-> IF x = k THEN entry ELSE cch[x]]

\* CacheDelete removing nothing
CacheDeleteNothing(cch, k) == cch

\* CacheDelete emptying the whole cache
CacheClear(cch, k) == <<>>

\* cache.delete(k)
CacheDelete(cch, k) == [x \in DOMAIN cch \ {k} |-> cch[x]]

\* cache.get(cacheKey)?.data || []
CachedOrEmpty(cch, k) == IF Has(cch, k) THEN cch[k].data ELSE <<>>

\* NewVersion leaving a gap
NewVersionSkipping(cv) == cv + 2

\* NewVersion without the increment
NewVersionSame(cv) == cv

\* const newVersion = currentVersion + 1
NewVersion(cv) == cv + 1

\* StartCall honouring the staleness flag: a fresh key is answered from the
\* cache at once, without a fetch
StartCallCached(cch, k, via, t, lm) ==
  IF ShouldRefresh(cch, k, t, lm)
  THEN [pc |-> "fetch", key |-> k, via |-> via, fetches |-> 1,
        shouldRefresh |-> TRUE]
  ELSE [pc |-> "done",
        ret |-> [type |-> "return", key |-> k, via |-> via,
                 shouldRefresh |-> FALSE, fetches |-> 0, raced |-> FALSE,
                 outcome |-> "cached", resp |-> NoResp, threw |-> FALSE,
                 result |-> CachedOrEmpty(cch, k), prev |-> Get(cch, k),
                 assignedBefore |-> assigned,
                 before |-> [cache |-> cch, currentVersion |-> currentVersion,
                             lastModified |-> lastModified]]]

\* getGoogleSheetData up to its first await: the cache key, the staleness
\* flag, and the fetch it issues whatever the flag says
StartCall(cch, k, via, t, lm) ==
  [pc |-> "fetch", key |-> k, via |-> via, fetches |-> 1,
   shouldRefresh |-> ShouldRefresh(cch, k, t, lm)]

\* Caught returning [] whatever the cache holds
CaughtEmpty(call, via, cch, why, r) ==
  [type |-> "return", key |-> call.key, via |-> via,
   shouldRefresh |-> call.shouldRefresh,
   fetches |-> call.fetches, raced |-> call.raced,
   outcome |-> why, resp |-> r, threw |-> FALSE,
   result |-> <<>>, had |-> call.had,
   prev |-> Get(cch, call.key), assignedBefore |-> assigned,
   before |-> [cache |-> cch, currentVersion |-> currentVersion,
               lastModified |-> lastModified]]

\* the catch block: the error is logged and the cached rows or [] returned
Caught(call, via, cch, why, r) ==
  [type |-> "return", key |-> call.key, via |-> via,
   shouldRefresh |-> call.shouldRefresh,
   fetches |-> call.fetches, raced |-> call.raced,
   outcome |-> why, resp |-> r, threw |-> FALSE,
   result |-> CachedOrEmpty(cch, call.key), had |-> call.had,
   prev |-> Get(cch, call.key), assignedBefore |-> assigned,
   before |-> [cache |-> cch, currentVersion |-> currentVersion,
               lastModified |-> lastModified]]

\* the return of the try block
Returned(call, via, cch, data, r) ==
  [type |-> "return", key |-> call.key, via |-> via,
   shouldRefresh |-> call.shouldRefresh,
   fetches |-> call.fetches, raced |-> call.raced,
   outcome |-> "ok", resp |-> r, threw |-> FALSE,
   result |-> data, stale |-> call.stale,
   prev |-> Get(cch, call.key), assignedBefore |-> assigned]

\* how the cycle's sheet read ended, before any has
NoRead == [outcome |-> "none", resp |-> NoResp]

\* scrapeAndUpdateEvents: where it is suspended, the invocations so far,
\* its locals (events, existingData, newEvents), what it returned or threw
\* and, as history, the page served, how its sheet read ended and the
\* steps it has invoked; over all
\* invocations, the scrape fetches, sheet reads and write-backs issued, the
\* invocations that passed their delta to updateGoogleSheet (wrote) and
\* those that stopped with a delta computed and not written (lost)
IdleCycle ==
  [pc |-> "idle", n |-> 0, page |-> "none", read |-> NoRead,
   events |-> <<>>, existing |-> <<>>, newEvents |-> <<>>, log |-> <<>>, result |-> 0,
   error |-> "", scrapes |-> 0, reads |-> 0, writes |-> 0, wrote |-> {},
   lost |-> {}]

\* the invocation is over: its locals are gone, the history stays
Over(c) ==
  [IdleCycle EXCEPT !.n = c.n, !.scrapes = c.scrapes, !.reads = c.reads,
                    !.writes = c.writes, !.wrote = c.wrote, !.lost = c.lost]

IdleFilter == [scraped |-> <<>>, canonical |-> <<>>, delta |-> <<>>, applied |-> FALSE]

\* the module is loaded: lastModified = Date.now()
SheetInit ==
  /\ now = 0
  /\ cache = <<>>
  /\ currentVersion = 0
  /\ lastModified = 0
  /\ calls = [c \in {CycleCall} \cup CallIds |-> IdleCall]
  /\ assigned = {}
  /\ ev = NoEvent
  /\ cycle = IdleCycle

\* no function is being applied on its own
NoPure == [fn |-> "none"]

Init == SheetInit /\ filt = IdleFilter /\ pure = NoPure

\* the awaited getGoogleSheetData returns rows to its caller: the merge
\* cycle resumes with them as existingData (how the read ended is history,
\* kept where consecutive cycles are compared)
Deliver(c, rows) ==
  cycle' = IF c = CycleCall
           THEN [cycle EXCEPT !.pc = "merge", !.existing = rows,
                              !.read = IF pure.fn = "cycles"
                                       THEN [outcome |-> ev'.outcome,
                                             resp |-> ev'.resp]
                                       ELSE NoRead]
           ELSE cycle

\* what a step that starts getGoogleSheetData leaves in slot c and in ev;
\* st is StartCall's result, prev the key's entry when the step began and
\* inFlight the invocations suspended at that time
StartedAmong(inFlight, c, st, prev) ==
  IF st.pc = "fetch"
  THEN /\ calls' = [inFlight EXCEPT ![c] =
            [pc |-> "fetch", key |-> st.key,
             shouldRefresh |-> st.shouldRefresh, fetches |-> st.fetches,
             raced |-> FALSE, stale |-> FALSE,
             had |-> /\ pure.fn = "invalidation"
                     /\ st.via = "webhook"
                     /\ prev.version > 0]]
       /\ ev' = [type |-> "start", key |-> st.key, via |-> st.via,
                 fetches |-> st.fetches, shouldRefresh |-> st.shouldRefresh,
                 had |-> prev.version > 0]
  ELSE /\ calls' = inFlight
       /\ ev' = st.ret

Started(c, st, prev) == StartedAmong(calls, c, st, prev)

\* history, kept where invalidation is followed: the invocations in flight
\* for key k have issued their fetch before the deletion of k that happens
\* now
Invalidated(inFlight, k) ==
  [d \in DOMAIN inFlight |->
     IF pure.fn = "invalidation" /\ inFlight[d].pc # "idle"
          /\ inFlight[d].key = k
     THEN [inFlight[d] EXCEPT !.stale = TRUE]
     ELSE inFlight[d]]

\* Page preparation: the index page and the event pages.

UpperCase ==
  <<"A", "B", "C", "D", "E", "F", "G", "H", "I", "J", "K", "L", "M", "N",
    "O", "P", "Q", "R", "S", "T", "U", "V", "W", "X", "Y", "Z">>
LowerCase ==
  <<"a", "b", "c", "d", "e", "f", "g", "h", "i", "j", "k", "l", "m", "n",
    "o", "p", "q", "r", "s", "t", "u", "v", "w", "x", "y", "z">>

Letters(alphabet) == {alphabet[i] : i \in 1..Len(alphabet)}

\* s.toLowerCase() over the characters of the model
ToLowerCase(s) ==
  [i \in 1..Len(s) |->
     IF s[i] \in Letters(UpperCase)
     THEN LowerCase[FirstAt(UpperCase, s[i], 1)]
     ELSE s[i]]

\* [a-z0-9]
IsSlugChar(ch) == ch \in Letters(LowerCase) \cup Digits

\* s.replace(/[^a-z0-9]+/g, '-'): every run of other characters is one dash
RECURSIVE ReplaceRuns(_, _)
ReplaceRuns(s, inRun) ==
  IF s = <<>> THEN <<>>
  ELSE IF IsSlugChar(Head(s)) THEN <<Head(s)>> \o ReplaceRuns(Tail(s), FALSE)
  ELSE IF inRun THEN ReplaceRuns(Tail(s), TRUE)
  ELSE <<"-">> \o ReplaceRuns(Tail(s), TRUE)

\* s.replace(/(^-|-$)/g, ''): a leading dash and a trailing dash are dropped
StripDashes(s) ==
  LET t == IF s # <<>> /\ Head(s) = "-" THEN Tail(s) ELSE s IN
  IF t # <<>> /\ t[Len(t)] = "-" THEN SubSeq(t, 1, Len(t) - 1) ELSE t

\* row.evento.toLowerCase().replace(...).replace(...): a TypeError when the
\* name is null, undefined or not a string
Slug(evento) ==
  IF evento.t # "string" THEN Throw("TypeError")
  ELSE Ok(Str(StripDashes(ReplaceRuns(ToLowerCase(evento.s), FALSE))))

sDrivePrefix ==
  <<"h", "t", "t", "p", "s", ":", "/", "/", "d", "r", "i", "v", "e", ".",
    "g", "o", "o", "g", "l", "e", ".", "c", "o", "m">>
sDriveHost ==
  <<"d", "r", "i", "v", "e", ".", "g", "o", "o", "g", "l", "e", ".", "c",
    "o", "m">>
sHttp == <<"h", "t", "t", "p">>
sImagesDir == <<"/", "i", "m", "a", "g", "e", "s", "/">>
sDirect ==
  <<"h", "t", "t", "p", "s", ":", "/", "/", "l", "h", "3", ".", "g", "o",
    "o", "g", "l", "e", "u", "s", "e", "r", "c", "o", "n", "t", "e", "n",
    "t", ".", "c", "o", "m", "/", "d", "/">>
sWidth == <<"=", "w", "1", "0", "0", "0">>
sUntitled ==
  <<"U", "n", "t", "i", "t", "l", "e", "d", " ", "E", "v", "e", "n", "t">>
sVirtual == <<"V", "i", "r", "t", "u", "a", "l">>
sMidnight == <<"0", "0", ":", "0", "0">>
sNoDescription ==
  <<"N", "o", " ", "d", "e", "s", "c", "r", "i", "p", "t", "i", "o", "n",
    " ", "a", "v", "a", "i", "l", "a", "b", "l", "e">>

\* s.startsWith(p)
StartsWith(s, p) == Len(p) <= Len(s) /\ SubSeq(s, 1, Len(p)) = p

\* s.includes(p)
Includes(s, p) ==
  \E i \in 1..(Len(s) - Len(p) + 1) : SubSeq(s, i, i + Len(p) - 1) = p

\* [-\w]
IsWordChar(ch) ==
  ch \in Letters(LowerCase) \cup Letters(UpperCase) \cup Digits
           \cup {"_", "-"}

\* the length of the run of [-\w] characters of s that starts at position i
RECURSIVE RunLength(_, _)
RunLength(s, i) ==
  IF i > Len(s) \/ ~IsWordChar(s[i]) THEN 0 ELSE 1 + RunLength(s, i + 1)

\* s.match(/[\/=]([-\w]{25,})/)?.[1] from position i on: the run after the
\* first '/' or '=' that is followed by 25 or more such characters, undefined
\* when there is none
RECURSIVE MatchFileId(_, _)
MatchFileId(s, i) ==
  IF i > Len(s) THEN Undef
  ELSE IF s[i] \in {"/", "="} /\ RunLength(s, i + 1) >= 25
       THEN Str(SubSeq(s, i + 1, i + RunLength(s, i + 1)))
  ELSE MatchFileId(s, i + 1)

\* `${v}` for a string or undefined
Interpolate(v) == IF v.t = "string" THEN v.s ELSE sUndefined

\* the image of an event page: a TypeError when the flyer is truthy and not
\* a string
EventImage(flyer) ==
  IF ~Truthy(flyer) THEN Ok(Str(sDefaultImage))
  ELSE IF flyer.t # "string" THEN Throw("TypeError")
  ELSE IF StartsWith(flyer.s, sDrivePrefix)
       THEN Ok(Str(sDirect \o Interpolate(MatchFileId(flyer.s, 1)) \o sWidth))
  ELSE IF StartsWith(flyer.s, sHttp) THEN Ok(flyer)
  ELSE Ok(Str(sImagesDir \o flyer.s))

\* the src of the image the index page renders for event.data.image
IndexImage(image) ==
  IF image.t # "string" THEN Throw("TypeError")
  ELSE LET fileId == IF Includes(image.s, sDriveHost)
                     THEN MatchFileId(image.s, 1) ELSE Undef
       IN IF Truthy(fileId)
          THEN Ok(Str(sDirect \o Interpolate(fileId) \o sWidth))
          ELSE Ok(image)

\* new Date() at time t (milliseconds)
NewDate(t) == DateV(t \div 86400000, (t % 86400000) \div 1000)

\* row.tipo_de_evento ? [row.tipo_de_evento] : []
Tags(row) ==
  IF Truthy(Field(row, "tipo_de_evento"))
  THEN <<Field(row, "tipo_de_evento")>> ELSE <<>>

\* one row of the index page's sheetData.map
IndexEvent(row, t) ==
  LET slug == Slug(Field(row, "evento")) IN
  IF ~slug.ok THEN slug
  ELSE Ok([slug |-> slug.val,
           data |->
             [eventName |-> OrElse(Field(row, "evento"), Str(sUntitled)),
              tags |-> Tags(row),
              startDate |-> OrElse(Field(row, "horario_de_inicio"), NewDate(t)),
              endDate |-> OrElse(Field(row, "horario_de_termino"), NewDate(t)),
              location |-> OrElse(Field(row, "local"), Str(sVirtual)),
              description |->
                OrElse(Field(row, "descricao"), Str(sNoDescription)),
              image |-> OrElse(Field(row, "flyer"), Str(sDefaultImage))]])

\* one row of getStaticPaths' sheetData.map
PathEvent(row, t) ==
  LET slug == Slug(Field(row, "evento"))
      image == EventImage(Field(row, "flyer"))
  IN IF ~slug.ok THEN slug
     ELSE IF ~image.ok THEN image
     ELSE Ok([params |-> [slug |-> slug.val],
              props |->
                [event |->
                   [eventName |-> OrElse(Field(row, "evento"), Str(sUntitled)),
                    tags |-> Tags(row),
                    date |-> OrElse(Field(row, "date"), NewDate(t)),
                    time |-> OrElse(Field(row, "time"), Str(sMidnight)),
                    location |-> OrElse(Field(row, "local"), Str(sVirtual)),
                    image |-> image.val]]])

\* sheetData.map(...) of the page that reads tab gid: the first row that
\* throws ends the preparation with its error
RECURSIVE MapPage(_, _, _)
MapPage(gid, rows, t) ==
  IF rows = <<>> THEN Ok(<<>>)
  ELSE LET h == IF gid = EventsGid THEN IndexEvent(Head(rows), t)
                ELSE PathEvent(Head(rows), t)
       IN IF ~h.ok THEN h
          ELSE LET r == MapPage(gid, Tail(rows), t) IN
               IF ~r.ok THEN r ELSE Ok(<<h.val>> \o r.val)

\* new Date(startDate).valueOf() for a Date; NaN (-1 here) otherwise
StartValue(e) ==
  IF e.data.startDate.t = "date" /\ "invalid" \notin DOMAIN e.data.startDate
  THEN e.data.startDate.day * 86400000 + e.data.startDate.sec * 1000
  ELSE -1

\* events.sort by start value: a stable insertion of e into sorted
RECURSIVE Insert(_, _)
Insert(sorted, e) ==
  IF sorted = <<>> THEN <<e>>
  ELSE IF StartValue(sorted[Len(sorted)]) > StartValue(e)
            /\ StartValue(e) >= 0
       THEN Insert(SubSeq(sorted, 1, Len(sorted) - 1), e)
              \o <<sorted[Len(sorted)]>>
  ELSE Append(sorted, e)

RECURSIVE Sort(_)
Sort(events) ==
  IF events = <<>> THEN <<>>
  ELSE Insert(Sort(SubSeq(events, 1, Len(events) - 1)), events[Len(events)])

\* the data of the page that reads tab gid, from the rows getGoogleSheetData
\* returned: the index page maps and sorts, getStaticPaths maps
PreparePage(gid, rows, t) ==
  LET events == MapPage(gid, rows, t) IN
  IF ~events.ok THEN events
  ELSE IF gid = EventsGid THEN Ok(Sort(events.val))
  ELSE events

\* the index page's try around fetch('/api/scrape'): whether the call
\* resolves ok, resolves with an error status or throws, the page goes on
TriggerOutcomes == {"ok", "notOk", "threw"}
RunScraper(trig) == Ok(Undef)

\* the tab whose rows are cached under key k
GidOf(k) == CHOOSE g \in Gids : CacheKey(SHEET_ID, g) = k

\* a call has returned and its caller has not resumed yet
Returning == ev.type = "return"

\* the caller awaiting getGoogleSheetData resumes with the rows returned: a
\* page prepares its data from them
Resume ==
  /\ Returning
  /\ ev' = IF ev.via = "page"
           THEN [type |-> "page", key |-> ev.key, outcome |-> ev.outcome,
                 rows |-> ev.result,
                 prepared |-> PreparePage(GidOf(ev.key), ev.result, now)]
           ELSE NoEvent
  /\ UNCHANGED <<now, cache, currentVersion, lastModified, calls, assigned>>
  /\ UNCHANGED <<cycle, filt, pure>>

\* time passes
Tick ==
  /\ ~Returning
  /\ now < MaxTicks * TickMs
  /\ now' = now + TickMs
  /\ ev' = NoEvent
  /\ UNCHANGED <<cache, currentVersion, lastModified, calls, assigned>>
  /\ UNCHANGED <<cycle, filt, pure>>

\* page rendering calls getGoogleSheetData(sheetId, gid)
PageRead(c, gid, trig) ==
  /\ ~Returning
  /\ FreeSlot(c)
  /\ MayStart
  /\ IF gid = EventsGid THEN RunScraper(trig).ok ELSE trig = "none"
  /\ Started(c, StartCall(cache, CacheKey(SHEET_ID, gid), "page", now,
                          lastModified),
             Get(cache, CacheKey(SHEET_ID, gid)))
  /\ UNCHANGED <<now, cache, currentVersion, lastModified, assigned>>
  /\ UNCHANGED <<cycle, filt, pure>>

\* HandleWebhookUpdate taking the invalidation for a modification
HandleWebhookUpdateStamping(gid) ==
  LET k == CacheKey(SHEET_ID, gid)
      deleted == CacheDelete(cache, k)
  IN /\ ~Returning
     /\ calls[WebhookCall].pc = "idle"
     /\ MayStart
     /\ cache' = deleted
     /\ lastModified' = now
     /\ StartedAmong(Invalidated(calls, k), WebhookCall,
                     StartCall(deleted, k, "webhook", now, now),
                     Get(cache, k))
     /\ UNCHANGED <<now, currentVersion, assigned>>
     /\ UNCHANGED <<cycle, filt, pure>>

\* handleWebhookUpdate(sheetId, gid): cache.delete, then getGoogleSheetData
HandleWebhookUpdate(gid) ==
  LET k == CacheKey(SHEET_ID, gid)
      deleted == CacheDelete(cache, k)
  IN /\ ~Returning
     /\ calls[WebhookCall].pc = "idle"
     /\ MayStart
     /\ cache' = deleted
     /\ StartedAmong(Invalidated(calls, k), WebhookCall,
                     StartCall(deleted, k, "webhook", now, lastModified),
                     Get(cache, k))
     /\ UNCHANGED <<now, currentVersion, lastModified, assigned>>
     /\ UNCHANGED <<cycle, filt, pure>>

\* await fetch(url) resolves with a response
FetchResolve(c) ==
  /\ ~Returning
  /\ calls[c].pc = "fetch"
  /\ calls' = [calls EXCEPT ![c].pc = "text"]
  /\ ev' = NoEvent
  /\ UNCHANGED <<now, cache, currentVersion, lastModified, assigned>>
  /\ UNCHANGED <<cycle, filt, pure>>

\* FetchReject dropping the key's entry before the catch block returns
FetchRejectEvicting(c) ==
  /\ ~Returning
  /\ calls[c].pc = "fetch"
  /\ calls' = [calls EXCEPT ![c] = IdleCall]
  /\ cache' = CacheDelete(cache, calls[c].key)
  /\ ev' = Caught(calls[c], Via(c), cache', "network", NoResp)
  /\ Deliver(c, ev'.result)
  /\ UNCHANGED <<now, currentVersion, lastModified, assigned, filt, pure>>

\* await fetch(url) rejects: the catch block
FetchReject(c) ==
  /\ ~Returning
  /\ calls[c].pc = "fetch"
  /\ calls' = [calls EXCEPT ![c] = IdleCall]
  /\ ev' = Caught(calls[c], Via(c), cache, "network", NoResp)
  /\ Deliver(c, ev'.result)
  /\ UNCHANGED <<now, cache, currentVersion, lastModified, assigned, filt, pure>>

\* await response.text() rejects: the catch block
TextReject(c) ==
  /\ ~Returning
  /\ calls[c].pc = "text"
  /\ calls' = [calls EXCEPT ![c] = IdleCall]
  /\ ev' = Caught(calls[c], Via(c), cache, "body", NoResp)
  /\ Deliver(c, ev'.result)
  /\ UNCHANGED <<now, cache, currentVersion, lastModified, assigned, filt, pure>>

\* await response.text() resolves with the body r: decode, normalize, then
\* either the cache update and the return of the data, or the catch block
TextResolve(c, r) ==
  LET p == Processed[r]
      k == calls[c].key
      newVersion == NewVersion(currentVersion)
  IN /\ ~Returning
     /\ calls[c].pc = "text"
     /\ IF p.ok
        THEN /\ currentVersion' = newVersion
             /\ lastModified' = now
             /\ cache' = CacheSet(cache, k,
                           [data |-> p.val, timestamp |-> now,
                            version |-> newVersion])
             /\ assigned' = assigned \cup {newVersion}
             /\ calls' = [d \in DOMAIN calls |->
                  IF d = c THEN IdleCall
                  ELSE IF calls[d].pc # "idle" /\ calls[d].key = k
                       THEN [calls[d] EXCEPT !.raced = TRUE]
                       ELSE calls[d]]
             /\ ev' = Returned(calls[c], Via(c), cache, p.val, r)
        ELSE /\ calls' = [calls EXCEPT ![c] = IdleCall]
             /\ ev' = Caught(calls[c], Via(c), cache, p.stage, r)
             /\ UNCHANGED <<cache, currentVersion, lastModified, assigned>>
     /\ Deliver(c, ev'.result)
     /\ UNCHANGED <<now, filt, pure>>

\* UpdateGoogleSheet keeping the rows it is given as the entry of the
\* canonical tab
UpdateGoogleSheetCaching(data) ==
  /\ cache' = CacheSet(cache, CacheKey(SHEET_ID, EventsGid),
                [data |-> data, timestamp |-> now,
                 version |-> currentVersion])
  /\ UNCHANGED <<now, currentVersion, lastModified, calls, assigned>>

\* updateGoogleSheet(sheetId, data): logs, writes nothing
UpdateGoogleSheet(data) ==
  UNCHANGED <<now, cache, currentVersion, lastModified, calls, assigned>>

\* scrapeAndUpdateEvents is called: it runs to the await of axios.get
CycleStart ==
  /\ ~Returning
  /\ cycle.pc = "idle"
  /\ cycle.n < MaxCycles
  /\ MayStart
  /\ cycle' = [cycle EXCEPT !.pc = "scrape", !.n = @ + 1,
                            !.log = <<"scrape">>, !.scrapes = @ + 1]
  /\ ev' = NoEvent
  /\ UNCHANGED <<now, cache, currentVersion, lastModified, calls, assigned>>
  /\ UNCHANGED <<filt, pure>>

\* AfterScrape reading the sheet whatever the scrape gave: a failed scrape
\* counts as no events
AfterScrapeSoft(page, scrape) ==
  /\ cycle' = [cycle EXCEPT !.pc = "read", !.page = page,
                            !.events = IF scrape.ok THEN scrape.val ELSE <<>>,
                            !.log = Append(@, "read")]
  /\ Started(CycleCall,
             StartCall(cache, CacheKey(SHEET_ID, EventsGid), "cycle",
                       now, lastModified),
             Get(cache, CacheKey(SHEET_ID, EventsGid)))

\* what scrapeAndUpdateEvents does once the scrape has given events or
\* thrown: on events it calls getGoogleSheetData for the canonical tab, on
\* an error its catch block logs and rethrows
AfterScrape(page, scrape) ==
  IF scrape.ok
  THEN /\ cycle' = [cycle EXCEPT !.pc = "read", !.page = page,
                                 !.events = scrape.val,
                                 !.log = Append(@, "read"),
                                 !.reads = @ + 1]
       /\ Started(CycleCall,
                  StartCall(cache, CacheKey(SHEET_ID, EventsGid), "cycle",
                            now, lastModified),
                  Get(cache, CacheKey(SHEET_ID, EventsGid)))
  ELSE /\ cycle' = [cycle EXCEPT !.pc = "failed", !.page = page,
                                 !.error = scrape.err]
       /\ ev' = NoEvent
       /\ calls' = calls

\* axios.get resolves with a page: scrapeEvents extracts the events
ScrapeResolve(page) ==
  /\ ~Returning
  /\ cycle.pc = "scrape"
  /\ AfterScrape(page, Scraped[page])
  /\ UNCHANGED <<now, cache, currentVersion, lastModified, assigned, filt, pure>>

\* axios.get rejects: scrapeEvents throws
ScrapeReject ==
  /\ ~Returning
  /\ cycle.pc = "scrape"
  /\ AfterScrape("unreachable", Throw("NetworkError"))
  /\ UNCHANGED <<now, cache, currentVersion, lastModified, assigned, filt, pure>>

\* CycleMerge taking an empty existingData for a failed read: nothing is
\* added
CycleMergeGuarded ==
  LET newEvents == IF cycle.existing = <<>> THEN <<>>
                   ELSE FilterNewEvents(cycle.events, cycle.existing)
  IN
  /\ ~Returning
  /\ cycle.pc = "merge"
  /\ IF Len(newEvents) > 0
     THEN /\ cycle' = [cycle EXCEPT !.pc = "write", !.newEvents = newEvents,
                                    !.log = @ \o <<"delta", "write">>,
                                    !.writes = @ + 1,
                                    !.wrote = @ \cup {cycle.n}]
          /\ UpdateGoogleSheet(newEvents)
     ELSE /\ cycle' = [cycle EXCEPT !.pc = "done", !.newEvents = newEvents,
                                    !.log = Append(@, "delta"),
                                    !.result = Len(newEvents)]
          /\ UNCHANGED <<now, cache, currentVersion, lastModified, calls,
                         assigned>>
  /\ ev' = NoEvent
  /\ UNCHANGED <<filt, pure>>

\* the cycle resumes with existingData: filterNewEvents, then
\* updateGoogleSheet when the delta is not empty, else the return of 0
CycleMerge ==
  LET newEvents == FilterNewEvents(cycle.events, cycle.existing) IN
  /\ ~Returning
  /\ cycle.pc = "merge"
  /\ IF Len(newEvents) > 0
     THEN /\ cycle' = [cycle EXCEPT !.pc = "write", !.newEvents = newEvents,
                                    !.log = @ \o <<"delta", "write">>,
                                    !.writes = @ + 1,
                                    !.wrote = @ \cup {cycle.n}]
          /\ UpdateGoogleSheet(newEvents)
     ELSE /\ cycle' = [cycle EXCEPT !.pc = "done", !.newEvents = newEvents,
                                    !.log = Append(@, "delta"),
                                    !.result = Len(newEvents)]
          /\ UNCHANGED <<now, cache, currentVersion, lastModified, calls,
                         assigned>>
  /\ ev' = NoEvent
  /\ UNCHANGED <<filt, pure>>

\* StopBeforeWrite with the delta kept and handed to updateGoogleSheet when
\* the process is back
StopThenReplay ==
  LET newEvents == FilterNewEvents(cycle.events, cycle.existing) IN
  /\ ~Returning
  /\ cycle.pc = "merge"
  /\ Len(newEvents) > 0
  /\ cycle' = [Over(cycle) EXCEPT !.lost = @ \cup {cycle.n},
                                  !.writes = @ + 1,
                                  !.wrote = @ \cup {cycle.n}]
  /\ UpdateGoogleSheet(newEvents)
  /\ ev' = [type |-> "stop", newEvents |-> newEvents]
  /\ UNCHANGED <<filt, pure>>

\* the process stops when the cycle has computed a delta to write and has
\* not yet called updateGoogleSheet: newEvents is a local and is gone, and
\* so are the cache, the version counter and the calls in flight; the module
\* is loaded anew (lastModified = Date.now())
StopBeforeWrite ==
  LET newEvents == FilterNewEvents(cycle.events, cycle.existing) IN
  /\ ~Returning
  /\ cycle.pc = "merge"
  /\ Len(newEvents) > 0
  /\ cycle' = [Over(cycle) EXCEPT !.lost = @ \cup {cycle.n}]
  /\ cache' = <<>>
  /\ currentVersion' = 0
  /\ lastModified' = now
  /\ calls' = [c \in DOMAIN calls |-> IdleCall]
  /\ assigned' = {}
  /\ ev' = [type |-> "stop", newEvents |-> newEvents]
  /\ UNCHANGED <<now, filt, pure>>

\* await updateGoogleSheet resolves: the cycle returns newEvents.length
CycleWritten ==
  /\ ~Returning
  /\ cycle.pc = "write"
  /\ cycle' = [cycle EXCEPT !.pc = "done", !.result = Len(cycle.newEvents)]
  /\ ev' = NoEvent
  /\ UNCHANGED <<now, cache, currentVersion, lastModified, calls, assigned>>
  /\ UNCHANGED <<filt, pure>>

\* error.message of the errors of the model
ErrorMessage(e) ==
  CASE e = "RangeError" -> "Invalid time value"
    [] e = "NetworkError" -> "Network Error"
    [] OTHER -> e

\* what the awaited scrapeAndUpdateEvents gave: its count or its error
CycleOutcome(c) == IF c.pc = "done" THEN Ok(c.result) ELSE Throw(c.error)

\* GET with a 200 whatever the cycle gave
GETAlways200(outcome) ==
  IF outcome.ok
  THEN [status |-> 200,
        body |-> [success |-> TRUE, newEvents |-> outcome.val]]
  ELSE [status |-> 200,
        body |-> [success |-> FALSE, error |-> ErrorMessage(outcome.err)]]

\* the trigger endpoint once scrapeAndUpdateEvents has settled: the JSON
\* body and the status of the Response (200 when none is given)
GET(outcome) ==
  IF outcome.ok
  THEN [status |-> 200,
        body |-> [success |-> TRUE, newEvents |-> outcome.val]]
  ELSE [status |-> 500,
        body |-> [success |-> FALSE, error |-> ErrorMessage(outcome.err)]]

\* scrapeAndUpdateEvents has returned or thrown: GET, its caller, answers
CycleSettled ==
  /\ ~Returning
  /\ cycle.pc \in {"done", "failed"}
  /\ cycle' = Over(cycle)
  /\ ev' = [type |-> "response", response |-> GET(CycleOutcome(cycle)),
            cycle |-> cycle]
  /\ pure' = IF pure.fn = "cycles" THEN [pure EXCEPT !.last = cycle] ELSE pure
  /\ UNCHANGED <<now, cache, currentVersion, lastModified, calls, assigned>>
  /\ UNCHANGED filt

SheetNext ==
  \/ Resume
  \/ Tick
  \/ \E c \in PageCalls, gid \in Gids, trig \in TriggerOutcomes \cup {"none"} :
       PageRead(c, gid, trig)
  \/ \E gid \in Gids : HandleWebhookUpdate(gid)
  \/ \E c \in CallIds : FetchResolve(c)
  \/ \E c \in CallIds : FetchReject(c)
  \/ \E c \in CallIds : TextReject(c)
  \/ \E c \in CallIds, r \in SheetResponses : TextResolve(c, r)

\* The Sheet Client under page rendering and webhook updates.
Spec == Init /\ [][SheetNext]_vars

\* The Sheet Client under page rendering and webhook updates, with the
\* calls that a deletion of their key has overtaken marked as history.
InvalidationInit ==
  /\ SheetInit
  /\ filt = IdleFilter
  /\ pure = [fn |-> "invalidation"]

InvalidationSpec == InvalidationInit /\ [][SheetNext]_vars

\* The merge cycle, with page rendering reading the sheet beside it.
\* the calls of this specification: the cycle's read and one page's
CycleCalls == {CycleCall, 1}

CycleNext ==
  \/ Resume
  \/ CycleStart
  \/ \E page \in PageIds : ScrapeResolve(page)
  \/ ScrapeReject
  \/ CycleMerge
  \/ StopBeforeWrite
  \/ CycleWritten
  \/ CycleSettled
  \/ \E c \in CycleCalls \ {CycleCall}, gid \in Gids, trig \in TriggerOutcomes \cup {"none"} :
       PageRead(c, gid, trig)
  \/ \E c \in CycleCalls : FetchResolve(c)
  \/ \E c \in CycleCalls : FetchReject(c)
  \/ \E c \in CycleCalls : TextReject(c)
  \/ \E c \in CycleCalls, r \in SheetResponses :
       TextResolve(c, r)

CycleSpec == Init /\ [][CycleNext]_vars

\* The merge cycle run again and again on its own while the clock advances,
\* with the invocation that settled last kept as history.
RepeatInit ==
  /\ SheetInit
  /\ filt = IdleFilter
  /\ pure = [fn |-> "cycles", last |-> IdleCycle]

RepeatNext ==
  \/ Resume
  \/ Tick
  \/ CycleStart
  \/ \E page \in PageIds : ScrapeResolve(page)
  \/ ScrapeReject
  \/ CycleMerge
  \/ CycleWritten
  \/ CycleSettled
  \/ FetchResolve(CycleCall)
  \/ FetchReject(CycleCall)
  \/ TextReject(CycleCall)
  \/ \E r \in SheetResponses : TextResolve(CycleCall, r)

RepeatSpec == RepeatInit /\ [][RepeatNext]_vars

----------------------------------------------------------------------------
(* filterNewEvents on its own, over bounded inputs.                        *)

\* longest scraped sequence and longest canonical sequence drawn
MaxScraped == 2
MaxCanonical == 2

SeqsUpTo(S, n) == UNION {[1..k -> S] : k \in 0..n}

\* the start values toISOString gives for the dates of ElShowX and ElJazz
sStart1 ==
  <<"2", "0", "2", "4", "-", "0", "1", "-", "0", "1", "T", "2", "0", ":",
    "0", "0", ":", "0", "0", ".", "0", "0", "0", "Z">>
sStart2 ==
  <<"2", "0", "2", "4", "-", "1", "2", "-", "2", "5", "T", "2", "1", ":",
    "3", "0", ":", "0", "0", ".", "0", "0", "0", "Z">>
sLink == <<"h", "t", "t", "p", ":", "/", "/", "r">>

Event(name, start, tags, link) ==
  [eventName |-> Str(name), tags |-> tags, startDate |-> Str(start),
   endDate |-> Str(start), location |-> Str(sElCabong),
   description |-> Str(<<"d">>), image |-> Str(sDefaultImage),
   registrationLink |-> link]

FilterEvents ==
  {Event(sShowX, sStart1, <<>>, Undef),
   Event(sShowX, sStart2, <<>>, Undef),
   Event(sJazz, sStart1, <<>>, Undef),
   Event(sJazz, sStart2, <<<<"a">>, <<"b">>>>, Str(sLink))}

\* rows of the canonical sheet: with the start as the ISO string, as a Date
\* object of the same instant, and the rows getGoogleSheetData returns
FilterRows ==
  {[evento |-> Str(sShowX), horario_de_inicio |-> Str(sStart1)],
   [evento |-> Str(sShowX), horario_de_inicio |-> Str(sStart2)],
   [evento |-> Str(sJazz), horario_de_inicio |-> Str(sStart1)],
   [evento |-> Str(sShowX), horario_de_inicio |-> ParseDateString(
      SubSeq(sStart1, 1, 19) \o <<"Z">>)],
   Processed[[kind |-> "framed", doc |-> "tableA"]].val[1]}

FilterInit ==
  /\ SheetInit
  /\ pure = NoPure
  /\ filt \in [scraped : SeqsUpTo(FilterEvents, MaxScraped),
               canonical : SeqsUpTo(FilterRows, MaxCanonical),
               delta : {<<>>}, applied : {FALSE}]

\* filterNewEvents(scraped, canonical) is called
ApplyFilter ==
  /\ ~filt.applied
  /\ filt' = [filt EXCEPT !.applied = TRUE,
                          !.delta = FilterNewEvents(filt.scraped, filt.canonical)]
  /\ UNCHANGED <<now, cache, currentVersion, lastModified, calls, assigned,
                 ev, cycle, pure>>

FilterNext == ApplyFilter

FilterSpec == FilterInit /\ [][FilterNext]_vars

----------------------------------------------------------------------------
(* The position-indexed row mapping on its own, over bounded tables.       *)

\* longest table drawn
MaxRows == 3

sBadTime == <<"2", "0", "h">>

\* rows of the tab: complete, with a one-digit time, with a non-numeric date
\* component, without a name, with an empty name, with a numeric date cell,
\* with a non-numeric time, with a numeric time cell, a null row and a row
\* without cells
NormalizeRows ==
  {Row(<<Cell(Str(sShowX)), Cell(Str(sDate1)), Cell(Str(sTime1)),
         Cell(Str(sTeatro)), Null, Null, Cell(Str(sPoster))>>),
   Row(<<Cell(Str(sJazz)), Cell(Str(sDate2)), Cell(Str(sTime2))>>),
   Row(<<Cell(Str(sFeira)), Cell(Str(sBadDate)), Cell(Str(sTime1)),
         Cell(Str(sTeatro))>>),
   Row(<<Null, Cell(Str(sDate1)), Cell(Str(sTime1)), Cell(Str(sTeatro))>>),
   Row(<<Cell(Str(<<>>)), Cell(Str(sDate1)), Cell(Str(sTime1))>>),
   Row(<<Cell(Str(sShowX)), Cell(Num(45651)), Cell(Str(sTime1))>>),
   Row(<<Cell(Str(sShowX)), Cell(Str(sDate1)), Cell(Str(sBadTime))>>),
   Row(<<Cell(Str(sShowX)), Cell(Str(sDate1)), Cell(Num(20))>>),
   Null,
   Row(<<>>)}

\* the components of well-formed DD/MM/YYYY and HH:MM cells
Literals ==
  {l \in [day : {1, 25, 28, 31}, month : {1, 2, 12}, year : {99, 1999, 2024},
          hour : {0, 9, 20, 23}, minute : {0, 5, 59}] :
     l.day <= MonthDays(l.year, l.month)}

NoLiteral == [day |-> 0]

\* the row whose date and time cells spell the components l
LiteralRow(l) ==
  Row(<<Cell(Str(sShowX)),
        Cell(Str(Pad2(l.day) \o <<"/">> \o Pad2(l.month) \o <<"/">>
                 \o Pad4(l.year))),
        Cell(Str(Pad2(l.hour) \o <<":">> \o Pad2(l.minute))),
        Cell(Str(sTeatro))>>)

NormalizeInit ==
  /\ SheetInit
  /\ filt = IdleFilter
  /\ \/ \E rows \in SeqsUpTo(NormalizeRows, MaxRows) :
          pure = [fn |-> "rows.map", rows |-> rows, literal |-> NoLiteral,
                  applied |-> FALSE, result |-> Ok(<<>>)]
     \/ \E l \in Literals :
          pure = [fn |-> "rows.map", rows |-> <<LiteralRow(l)>>,
                  literal |-> l, applied |-> FALSE, result |-> Ok(<<>>)]

\* the rows of a decoded table are mapped
ApplyNormalize ==
  /\ pure.fn = "rows.map"
  /\ ~pure.applied
  /\ pure' = [pure EXCEPT
                !.applied = TRUE,
                !.result = NormalizeTable(Table(SheetCols, pure.rows))]
  /\ UNCHANGED <<now, cache, currentVersion, lastModified, calls, assigned,
                 ev, cycle, filt>>

NormalizeNext == ApplyNormalize

NormalizeSpec == NormalizeInit /\ [][NormalizeNext]_vars

----------------------------------------------------------------------------
(* The label-indexed row mapping (the variant of getGoogleSheetData that   *)
(* keys each cell by its column label), over bounded rows.                 *)

\* longest row drawn
MaxCells == 2

\* new Date(Date.UTC(year, monthIndex, day, hours, minutes, seconds))
DateUTCTime(year, monthIndex, day, hours, minutes, seconds) ==
  LET d == DateUTC(year, monthIndex, day)
      secs == hours * 3600 + minutes * 60 + seconds
  IN DateV(d.day + secs \div 86400, secs % 86400)

\* the formatted stage: cell.f is "dd/MM/yyyy HH:mm:ss"; a TypeError when f
\* is not a string or has no second word, an invalid Date when a component
\* is missing or not a number
FormattedDate(f) ==
  IF f.t # "string" THEN Throw("TypeError")
  ELSE LET words == Split(f.s, " ") IN
       IF Len(words) < 2 THEN Throw("TypeError")
       ELSE LET dparts == Split(words[1], "/")
                tparts == Split(words[2], ":")
                day == NumberAt(dparts, 1)
                month == NumberAt(dparts, 2)
                year == NumberAt(dparts, 3)
                hours == NumberAt(tparts, 1)
                minutes == NumberAt(tparts, 2)
                seconds == NumberAt(tparts, 3)
            IN IF \E x \in {day, month, year, hours, minutes, seconds} :
                    IsNaN(x)
               THEN Ok(InvalidDate)
               ELSE Ok(DateUTCTime(year.n, month.n - 1, day.n, hours.n,
                                   minutes.n, seconds.n))

\* the length of the run of digits of s that starts at position i
RECURSIVE DigitRun(_, _)
DigitRun(s, i) ==
  IF i > Len(s) \/ s[i] \notin Digits THEN 0 ELSE 1 + DigitRun(s, i + 1)

\* (\d+) at position i, n times, each followed by ',' and the last by ')':
\* the numbers, or <<>> when s does not go on like that
RECURSIVE Groups(_, _, _)
Groups(s, i, n) ==
  LET len == DigitRun(s, i)
      sep == IF n = 1 THEN ")" ELSE ","
  IN IF len = 0 \/ i + len > Len(s) \/ s[i + len] # sep THEN <<>>
     ELSE IF n = 1 THEN <<DecimalValue(SubSeq(s, i, i + len - 1))>>
     ELSE LET rest == Groups(s, i + len + 1, n - 1) IN
          IF rest = <<>> THEN <<>>
          ELSE <<DecimalValue(SubSeq(s, i, i + len - 1))>> \o rest

sDateOpen == <<"D", "a", "t", "e", "(">>

\* cell.v.match(/Date\((\d{4}),(\d+),(\d+),(\d+),(\d+),(\d+)\)/) from
\* position i on: the six numbers of the first match, <<>> when none
RECURSIVE MatchDateLiteral(_, _)
MatchDateLiteral(s, i) ==
  IF i + 9 > Len(s) THEN <<>>
  ELSE LET rest == IF /\ SubSeq(s, i, i + 4) = sDateOpen
                      /\ DigitRun(s, i + 5) >= 4
                      /\ s[i + 9] = ","
                   THEN Groups(s, i + 10, 5) ELSE <<>>
       IN IF rest # <<>>
          THEN <<DecimalValue(SubSeq(s, i + 5, i + 8))>> \o rest
          ELSE MatchDateLiteral(s, i + 1)

\* cell.v.match(/^(\d{1,2}):(\d{2})$/): hours and minutes, <<>> when none
MatchTime(s) ==
  LET p == FirstAt(s, ":", 1) IN
  IF /\ p \in {2, 3} /\ Len(s) = p + 2 /\ DigitsAt(s, 1, p - 1)
     /\ DigitsAt(s, p + 1, p + 2)
  THEN <<DecimalValue(SubSeq(s, 1, p - 1)),
         DecimalValue(SubSeq(s, p + 1, p + 2))>>
  ELSE <<>>

\* what the date parser's implementation-specific fallback makes of a
\* string that is not in the ISO format, when it accepts it: words followed
\* by a lone number 1..12 are that month of 2001 (V8), anything else here
\* is no date
LegacyParse(s) ==
  LET words == Split(s, " ")
      last == words[Len(words)]
  IN IF /\ Len(words) >= 2 /\ last # <<>> /\ AllDigits(last)
        /\ DecimalValue(last) \in 1..12
        /\ \A i \in 1..(Len(words) - 1) : DigitRun(words[i], 1) = 0
     THEN DateV(DaysFromCivil(2001, DecimalValue(last)), 0)
     ELSE InvalidDate

\* new Date(s): the ISO format is parsed as such; for any other string the
\* result is left to the implementation, whose fallback is used or not
NewDateFromString(s, legacy) ==
  IF ParseDateString(s) # InvalidDate THEN ParseDateString(s)
  ELSE IF legacy THEN LegacyParse(s)
  ELSE InvalidDate

\* new Date() at t with setHours(hours), setMinutes(minutes), setSeconds(0),
\* the process running in UTC
TimeToday(t, hours, minutes) ==
  LET secs == hours * 3600 + minutes * 60 IN
  DateV(NewDate(t).day + secs \div 86400, secs % 86400)

\* the callback of row.c.forEach for one cell: the value stored under the
\* cell's column label, a TypeError when the formatted stage throws
LabelCell(cell, t, legacy) ==
  LET v == OptProp(cell, "v") IN
  IF v.t # "string" THEN Ok(OrElse(v, Null))
  ELSE IF Truthy(Prop(cell, "f")) THEN FormattedDate(Prop(cell, "f"))
  ELSE LET dateMatch == MatchDateLiteral(v.s, 1) IN
       IF dateMatch # <<>>
       THEN Ok(DateUTCTime(dateMatch[1], dateMatch[2], dateMatch[3],
                           dateMatch[4], dateMatch[5], dateMatch[6]))
       ELSE LET isoDate == NewDateFromString(v.s, legacy) IN
            IF isoDate # InvalidDate THEN Ok(isoDate)
            ELSE LET timeMatch == MatchTime(v.s) IN
                 IF timeMatch # <<>>
                 THEN Ok(TimeToday(t, timeMatch[1], timeMatch[2]))
                 ELSE Ok(v)

\* row.c.forEach: the values of the row by column position; the first cell
\* that throws ends the mapping with its error
RECURSIVE LabelRow(_, _, _)
LabelRow(cells, t, legacy) ==
  IF cells = <<>> THEN Ok(<<>>)
  ELSE LET h == LabelCell(Head(cells), t, legacy) IN
       IF ~h.ok THEN h
       ELSE LET r == LabelRow(Tail(cells), t, legacy) IN
            IF ~r.ok THEN r ELSE Ok(<<h.val>> \o r.val)

sFormatted ==
  <<"2", "5", "/", "1", "2", "/", "2", "0", "2", "4", " ", "2", "0", ":",
    "0", "0", ":", "0", "0">>
sLiteral ==
  <<"D", "a", "t", "e", "(", "2", "0", "2", "4", ",", "1", "1", ",", "2",
    "5", ",", "2", "0", ",", "0", ",", "0", ")">>
sLiteralOther ==
  <<"D", "a", "t", "e", "(", "2", "0", "2", "4", ",", "1", "1", ",", "2",
    "6", ",", "2", "1", ",", "5", ",", "9", ")">>
sIso ==
  <<"2", "0", "2", "4", "-", "1", "2", "-", "2", "5", "T", "2", "0", ":",
    "0", "0", ":", "0", "0", "Z">>
sDateOnly == <<"2", "5", "/", "1", "2", "/", "2", "0", "2", "4">>
sLiteralDateOnly ==
  <<"D", "a", "t", "e", "(", "2", "0", "2", "4", ",", "1", "1", ",", "2",
    "5", ")">>
sNoSeconds ==
  <<"2", "5", "/", "1", "2", "/", "2", "0", "2", "4", " ", "2", "0", ":",
    "0", "0">>
sShow1 == <<"S", "h", "o", "w", " ", "1">>

\* a cell with value v and formatted string f
CellF(v, f) == Obj([v |-> v, f |-> f])

\* cells of a labelled tab: a date-time with its formatted string, one whose
\* value and formatted string disagree, a Date literal, an ISO string, a
\* time, a name, a name ending in a number, a date-only cell, a name with a
\* formatted string, a date-time formatted without seconds, a number, an
\* empty cell
LabelCells ==
  {CellF(Str(sLiteral), Str(sFormatted)),
   CellF(Str(sLiteralOther), Str(sFormatted)),
   Cell(Str(sLiteral)),
   Cell(Str(sIso)),
   Cell(Str(sTime1)),
   Cell(Str(sShowX)),
   Cell(Str(sShow1)),
   CellF(Str(sLiteralDateOnly), Str(sDateOnly)),
   CellF(Str(sShowX), Str(sShowX)),
   CellF(Str(sNoSeconds), Str(sNoSeconds)),
   CellF(Num(5), Str(<<"5">>)),
   Null}

\* the times (milliseconds) at which a row is mapped
LabelTimes == {0, 90061000}

LabelInit ==
  /\ SheetInit
  /\ filt = IdleFilter
  /\ \E cells \in SeqsUpTo(LabelCells, MaxCells), t \in LabelTimes :
       pure = [fn |-> "row.c.forEach", cells |-> cells, t |-> t,
               applied |-> FALSE, legacy |-> FALSE, result |-> Ok(<<>>)]

\* a row of a decoded table is mapped
ApplyLabelRow(legacy) ==
  /\ pure.fn = "row.c.forEach"
  /\ ~pure.applied
  /\ pure' = [pure EXCEPT !.applied = TRUE, !.legacy = legacy,
                          !.result = LabelRow(pure.cells, pure.t, legacy)]
  /\ UNCHANGED <<now, cache, currentVersion, lastModified, calls, assigned,
                 ev, cycle, filt>>

LabelNext == \E legacy \in BOOLEAN : ApplyLabelRow(legacy)

LabelSpec == LabelInit /\ [][LabelNext]_vars

----------------------------------------------------------------------------
(* The label-indexed getGoogleSheetData as a state machine: one caller     *)
(* reading the tabs while the clock advances.                              *)

sLabelEvento == <<"E", "v", "e", "n", "t", "o">>
sLabelInicio ==
  <<"H", "o", "r", "a", "r", "i", "o", " ", " ", "d", "e", " ", "I", "n",
    "i", "c", "i", "o">>

\* s.replace(/\s+/g, '_'): every run of spaces is one underscore
RECURSIVE ReplaceSpaces(_, _)
ReplaceSpaces(s, inRun) ==
  IF s = <<>> THEN <<>>
  ELSE IF Head(s) # " " THEN <<Head(s)>> \o ReplaceSpaces(Tail(s), FALSE)
  ELSE IF inRun THEN ReplaceSpaces(Tail(s), TRUE)
  ELSE <<"_">> \o ReplaceSpaces(Tail(s), TRUE)

\* col.label?.toString().toLowerCase().replace(/\s+/g, '_') || '' for a
\* column whose label is a string or missing; a TypeError when col is null
Header(col) ==
  LET label == GetProp(col, "label") IN
  IF ~label.ok THEN label
  ELSE IF label.val.t = "string"
       THEN Ok(ReplaceSpaces(ToLowerCase(label.val.s), FALSE))
       ELSE Ok(<<>>)

\* json.table.cols.map(...)
RECURSIVE Headers(_)
Headers(cols) ==
  IF cols = <<>> THEN Ok(<<>>)
  ELSE LET h == Header(Head(cols)) IN
       IF ~h.ok THEN h
       ELSE LET r == Headers(Tail(cols)) IN
            IF ~r.ok THEN r ELSE Ok(<<h.val>> \o r.val)

\* obj after row.c.forEach has stored values[i] under headers[i] (under
\* 'undefined' past the last header): a later cell overwrites an earlier
\* one with the same header
LabelObject(headers, values) ==
  LET KeyAt(i) == IF i <= Len(headers) THEN headers[i] ELSE sUndefined
      keys == {KeyAt(i) : i \in 1..Len(values)}
      Last(k) == CHOOSE i \in 1..Len(values) :
                   /\ KeyAt(i) = k
                   /\ \A j \in 1..Len(values) : KeyAt(j) = k => j <= i
  IN [k \in keys |-> values[Last(k)]]

\* return obj, once row.c.forEach has run to its end
LabelReturnObject(headers, values) ==
  IF ~values.ok THEN values ELSE Ok(LabelObject(headers, values.val))

\* the callback of rows.map of the label-indexed variant: a TypeError when
\* the row or its cell list is missing
LabelNormalizeRow(row, headers, t, legacy) ==
  LET c == GetProp(row, "c") IN
  IF ~c.ok THEN c
  ELSE IF c.val.t # "array" THEN Throw("TypeError")
  ELSE LabelReturnObject(headers, LabelRow(c.val.a, t, legacy))

\* the array rows.map returns from the results of its callback: the first
\* row whose callback throws ends the mapping with its error
Collect(results) ==
  LET failed == {i \in DOMAIN results : ~results[i].ok} IN
  IF failed # {}
  THEN results[CHOOSE i \in failed : \A j \in failed : i <= j]
  ELSE Ok([i \in DOMAIN results |-> results[i].val])

\* rows.map(...) of the label-indexed variant
LabelMapRows(rows, headers, t, legacy) ==
  Collect([i \in 1..Len(rows) |->
             LabelNormalizeRow(rows[i], headers, t, legacy)])

\* json.table.rows, json.table.cols.map(...), rows.map(...)
LabelNormalizeTable(json, t, legacy) ==
  LET table == GetProp(json, "table") IN
  IF ~table.ok THEN table
  ELSE LET rows == GetProp(table.val, "rows") IN
       IF ~rows.ok THEN rows
       ELSE LET cols == GetProp(table.val, "cols") IN
            IF ~cols.ok THEN cols
            ELSE IF cols.val.t # "array" THEN Throw("TypeError")
            ELSE LET headers == Headers(cols.val.a) IN
                 IF ~headers.ok THEN headers
                 ELSE IF rows.val.t # "array" THEN Throw("TypeError")
                 ELSE LabelMapRows(rows.val.a, headers.val, t, legacy)

LabelCols == <<Col(sLabelEvento), Col(sLabelInicio)>>

\* the documents of a labelled tab: one event with a formatted start, two
\* events with a time and an ISO start, one whose formatted string is no
\* date-time
LabelDocValue(d) ==
  CASE d = "labelA" ->
         Table(LabelCols,
               <<Row(<<Cell(Str(sShowX)),
                       CellF(Str(sLiteral), Str(sFormatted))>>)>>)
    [] d = "labelB" ->
         Table(LabelCols,
               <<Row(<<Cell(Str(sJazz)), Cell(Str(sTime1))>>),
                 Row(<<Cell(Str(sShow1)), Cell(Str(sIso))>>)>>)
    [] d = "labelBad" ->
         Table(LabelCols,
               <<Row(<<CellF(Str(sShowX), Str(sShowX)),
                       Cell(Str(sIso))>>)>>)

LabelDocNames == {"labelA", "labelB", "labelBad"}

\* JSON.parse(text.substring(47).slice(0, -2)) over the texts of a labelled
\* tab
LabelDecode(text) ==
  LET s == SliceEnd(Substring(text, PREFIX_LEN), SUFFIX_LEN) IN
  IF Len(s) = 3 /\ s[1] = "{" /\ s[3] = "}" /\ s[2] \in LabelDocNames
  THEN Ok(LabelDocValue(s[2]))
  ELSE JSONParse(s)

\* what the try block makes of a stage's result: its value, or its error
\* with the stage that threw
Staged(r, stage) ==
  IF r.ok THEN r ELSE [ok |-> FALSE, err |-> r.err, stage |-> stage]

\* the try block of the label-indexed variant from the response text to
\* the transformed data
LabelProcessText(text, t, legacy) ==
  LET json == LabelDecode(text) IN
  IF ~json.ok THEN Staged(json, "decode")
  ELSE Staged(LabelNormalizeTable(json.val, t, legacy), "normalize")

\* the bodies the endpoint returns to the label-indexed calls
LabelResponses ==
  [kind : {"framed"}, doc : LabelDocNames \cup {"noTable"}]
    \cup [kind : {"html"}, doc : {"none"}]

\* the label-indexed catch block: the error is logged and [] returned
LabelCaught(call, via, cch, why, r) ==
  [type |-> "return", key |-> call.key, via |-> via,
   shouldRefresh |-> call.shouldRefresh,
   fetches |-> call.fetches, raced |-> call.raced,
   outcome |-> why, resp |-> r, threw |-> FALSE,
   result |-> <<>>,
   prev |-> Get(cch, call.key), assignedBefore |-> assigned,
   before |-> [cache |-> cch, currentVersion |-> currentVersion,
               lastModified |-> lastModified]]

\* the slot of the label-indexed call
LabelCall == 1

\* a caller calls the label-indexed getGoogleSheetData(sheetId, gid)
LabelRead(gid) ==
  /\ ~Returning
  /\ calls[LabelCall].pc = "idle"
  /\ MayStart
  /\ Started(LabelCall,
             StartCall(cache, CacheKey(SHEET_ID, gid), "label", now,
                       lastModified),
             Get(cache, CacheKey(SHEET_ID, gid)))
  /\ UNCHANGED <<now, cache, currentVersion, lastModified, assigned>>
  /\ UNCHANGED <<cycle, filt, pure>>

\* await fetch(url) rejects: the label-indexed catch block
LabelFetchReject ==
  /\ ~Returning
  /\ calls[LabelCall].pc = "fetch"
  /\ calls' = [calls EXCEPT ![LabelCall] = IdleCall]
  /\ ev' = LabelCaught(calls[LabelCall], "label", cache, "network", NoResp)
  /\ UNCHANGED <<now, cache, currentVersion, lastModified, assigned>>
  /\ UNCHANGED <<cycle, filt, pure>>

\* await response.text() rejects: the label-indexed catch block
LabelTextReject ==
  /\ ~Returning
  /\ calls[LabelCall].pc = "text"
  /\ calls' = [calls EXCEPT ![LabelCall] = IdleCall]
  /\ ev' = LabelCaught(calls[LabelCall], "label", cache, "body", NoResp)
  /\ UNCHANGED <<now, cache, currentVersion, lastModified, assigned>>
  /\ UNCHANGED <<cycle, filt, pure>>

\* the end of the try block with the transformed data p, or the catch
\* block with the error p
LabelSettle(p, r) ==
  IF p.ok
  THEN /\ currentVersion' = NewVersion(currentVersion)
       /\ lastModified' = now
       /\ cache' = CacheSet(cache, calls[LabelCall].key,
                     [data |-> p.val, timestamp |-> now,
                      version |-> NewVersion(currentVersion)])
       /\ assigned' = assigned \cup {NewVersion(currentVersion)}
       /\ ev' = Returned(calls[LabelCall], "label", cache, p.val, r)
  ELSE /\ ev' = LabelCaught(calls[LabelCall], "label", cache, p.stage, r)
       /\ UNCHANGED <<cache, currentVersion, lastModified, assigned>>

\* await response.text() resolves with the body r: decode, normalize, then
\* either the cache update and the return of the data, or the catch block
LabelTextResolve(r, legacy) ==
  /\ ~Returning
  /\ calls[LabelCall].pc = "text"
  /\ calls' = [calls EXCEPT ![LabelCall] = IdleCall]
  /\ LabelSettle(LabelProcessText(ResponseText(r), now, legacy), r)
  /\ UNCHANGED <<now, cycle, filt, pure>>

LabelClientNext ==
  \/ Resume
  \/ Tick
  \/ \E gid \in Gids : LabelRead(gid)
  \/ FetchResolve(LabelCall)
  \/ LabelFetchReject
  \/ LabelTextReject
  \/ \E r \in LabelResponses, legacy \in BOOLEAN : LabelTextResolve(r, legacy)

\* The label-indexed Sheet Client under one caller.
LabelClientSpec == Init /\ [][LabelClientNext]_vars

----------------------------------------------------------------------------
(* The image URL transform of the pages on its own, over bounded flyers.   *)

sFileId ==
  <<"1", "6", "n", "U", "o", "G", "C", "6", "z", "b", "t", "f", "S", "i",
    "u", "5", "j", "q", "D", "0", "R", "-", "H", "v", "h", "7", "P", "H",
    "W", "Z", "d", "q", "A">>
sDriveFile ==
  <<"h", "t", "t", "p", "s", ":", "/", "/", "d", "r", "i", "v", "e", ".",
    "g", "o", "o", "g", "l", "e", ".", "c", "o", "m", "/", "f", "i", "l",
    "e", "/", "d", "/">>
sDriveOpen ==
  <<"h", "t", "t", "p", "s", ":", "/", "/", "d", "r", "i", "v", "e", ".",
    "g", "o", "o", "g", "l", "e", ".", "c", "o", "m", "/", "u", "c", "?",
    "i", "d", "=">>
sDrivePlain ==
  <<"h", "t", "t", "p", ":", "/", "/", "d", "r", "i", "v", "e", ".", "g",
    "o", "o", "g", "l", "e", ".", "c", "o", "m", "/", "f", "i", "l", "e",
    "/", "d", "/">>
sOtherHost ==
  <<"h", "t", "t", "p", "s", ":", "/", "/", "e", "x", "a", "m", "p", "l",
    "e", ".", "c", "o", "m", "/", "i", "m", "g", "/">>
sView == <<"/", "v", "i", "e", "w">>

\* the lengths of the identifiers drawn, around the 25 the pattern asks for
IdLengths == {0, 24, 25, 33}

\* flyer cells: none, empty, a file name, and links made of a host part, an
\* identifier and a tail
Flyers ==
  {Null, Str(<<>>), Str(sPoster)}
    \cup {Str(host \o SubSeq(sFileId, 1, n) \o tail) :
            host \in {sDriveFile, sDriveOpen, sDrivePlain, sOtherHost, <<>>},
            n \in IdLengths, tail \in {<<>>, sView}}

ImageInit ==
  /\ SheetInit
  /\ filt = IdleFilter
  /\ \E flyer \in Flyers, page \in {"event", "index"} :
       pure = [fn |-> "image", flyer |-> flyer, page |-> page,
               applied |-> FALSE, result |-> Ok(Undef)]

\* the event page computes its image from row.flyer; the index page stores
\* row.flyer || '/images/astro-post.jpg' and computes the src when rendering
ApplyImage ==
  /\ pure.fn = "image"
  /\ ~pure.applied
  /\ pure' = [pure EXCEPT
                !.applied = TRUE,
                !.result = IF pure.page = "event" THEN EventImage(pure.flyer)
                           ELSE IndexImage(OrElse(pure.flyer,
                                                  Str(sDefaultImage)))]
  /\ UNCHANGED <<now, cache, currentVersion, lastModified, calls, assigned,
                 ev, cycle, filt>>

ImageNext == ApplyImage

ImageSpec == ImageInit /\ [][ImageNext]_vars

----------------------------------------------------------------------------
(* scrapeEvents on its own, over bounded pages.                            *)

\* most elements on a page drawn
MaxElements == 2

sNoTime == <<"2", "0", "2", "4", "-", "1", "2", "-", "2", "5">>
sBadMonth ==
  <<"2", "0", "2", "4", "-", "1", "3", "-", "0", "1", " ", "2", "0", ":",
    "0", "0">>
sSlashes ==
  <<"2", "5", "/", "1", "2", "/", "2", "0", "2", "4", " ", "2", "0", ":",
    "0", "0">>

\* the .evento elements of a page: their date text is well-formed, empty,
\* without a time, with a month 13 or in another format; their image has a
\* source, an empty source or none
Elements ==
  [titulo : {sShowX, <<" ">> \o sJazz \o <<" ">>},
   data : {sIso1, <<" ">> \o sIso2, <<>>, sNoTime, sBadMonth, sSlashes},
   descricao : {<<"d">>},
   src : {Undef, Str(<<>>), Str(<<"j", ".", "p", "n", "g">>)}]

ScrapeInit ==
  /\ SheetInit
  /\ filt = IdleFilter
  /\ \E elements \in SeqsUpTo(Elements, MaxElements) :
       pure = [fn |-> "scrapeEvents", elements |-> elements,
               applied |-> FALSE, result |-> Ok(<<>>)]

\* axios.get resolved with a page of these elements: the each loop runs
ApplyScrape ==
  /\ pure.fn = "scrapeEvents"
  /\ ~pure.applied
  /\ pure' = [pure EXCEPT !.applied = TRUE,
                          !.result = ScrapeEvents(pure.elements)]
  /\ UNCHANGED <<now, cache, currentVersion, lastModified, calls, assigned,
                 ev, cycle, filt>>

ScrapeNext == ApplyScrape

ScrapeSpec == ScrapeInit /\ [][ScrapeNext]_vars

----------------------------------------------------------------------------
(* Properties of the Sheet Client (specification Spec).                    *)

Failures == {"network", "body", "decode", "normalize"}

C2_ReplacesEntry ==
  (ev.type = "return" /\ ev.outcome = "ok") =>
    /\ ev.key \in DOMAIN cache
    /\ cache[ev.key].data = ev.result
    /\ cache[ev.key].version > ev.prev.version
    /\ \A v \in ev.assignedBefore : cache[ev.key].version > v
    /\ cache[ev.key].version = currentVersion

\* a successful call has replaced an entry holding other rows, after a
\* refresh of the other key
C2_Witness ==
  /\ ev.type = "return"
  /\ ev.outcome = "ok"
  /\ ev.prev.version > 0
  /\ ev.prev.data # ev.result
  /\ cache[ev.key].data = ev.result
  /\ \E v \in ev.assignedBefore : v > ev.prev.version

\* C3 as stated: once handleWebhookUpdate(sheetId, gid) has been performed,
\* the cache has no entry for the key sheetId-gid.
C3_AbsentAfterWebhook ==
  (ev.type = "return" /\ ev.via = "webhook") => ev.key \notin DOMAIN cache

\* C3, amended: handleWebhookUpdate removes the key's entry before its
\* refetch is issued, so the key is absent when the refetch starts; when
\* the refetch succeeds the key is cached again with the refetched rows, and
\* the key is absent once the operation has completed only if the refetch
\* failed.
C3_AbsentUntilRefetched ==
  /\ (ev.type = "start" /\ ev.via = "webhook") =>
       /\ ev.key \notin DOMAIN cache
       /\ ev.shouldRefresh
  /\ (ev.type = "return" /\ ev.via = "webhook" /\ ev.outcome = "ok") =>
       /\ ev.key \in DOMAIN cache
       /\ cache[ev.key].data = ev.result
  /\ (ev.type = "return" /\ ev.via = "webhook"
        /\ ev.key \notin DOMAIN cache) => ev.outcome \in Failures

\* handleWebhookUpdate has just removed an entry the key had
C3_Witness ==
  /\ ev.type = "start"
  /\ ev.via = "webhook"
  /\ ev.had
  /\ ev.key \notin DOMAIN cache

C5_GlobalStaleness ==
  /\ ev.type = "start" =>
       (ev.shouldRefresh <=>
          (ev.key \notin DOMAIN cache \/ now - lastModified > 60000))
  /\ (ev.type = "return" /\ ev.outcome = "ok") => lastModified = now
  /\ (ev.type = "return" /\ ev.outcome \in Failures) =>
       lastModified = ev.before.lastModified

\* a call for a key whose own entry is older than the poll interval has
\* computed a false flag, another key having been refreshed since
C5_Witness ==
  /\ ev.type = "start"
  /\ ~ev.shouldRefresh
  /\ ev.key \in DOMAIN cache
  /\ now - cache[ev.key].timestamp > 60000
  /\ \E k \in DOMAIN cache \ {ev.key} : cache[k].timestamp = lastModified

\* C6: when calls for the same key overlap and succeed, the entry holds the
\* rows of the call that wrote last: a call that returns after another call
\* has written its key in the meantime leaves its own rows in the cache.
C6_LastWriteWins ==
  (ev.type = "return" /\ ev.outcome = "ok" /\ ev.raced) =>
    /\ ev.key \in DOMAIN cache
    /\ cache[ev.key].data = ev.result
    /\ cache[ev.key].timestamp = now

\* a call has overwritten the different rows an overlapping call had written
C6_Witness ==
  /\ ev.type = "return"
  /\ ev.outcome = "ok"
  /\ ev.raced
  /\ ev.prev.version > 0
  /\ ev.prev.data # ev.result
  /\ cache[ev.key].data = ev.result

\* a JSON value with table.cols and table.rows
HasTable(j) ==
  /\ j.t = "object"
  /\ "table" \in DOMAIN j.f
  /\ j.f.table.t = "object"
  /\ {"cols", "rows"} \subseteq DOMAIN j.f.table.f

\* a text made of a 47-character prefix, a JSON object with table.cols and
\* table.rows, and a 2-character suffix
ExpectedFraming(text) ==
  /\ Len(text) >= 47 + 2
  /\ \E d \in DocNames :
       /\ SubSeq(text, 47 + 1, Len(text) - 2) = DocSrc(d)
       /\ HasTable(DocValue(d))

\* ExpectedFraming of every response of the model, tabulated
Framed == [r \in Responses |-> ExpectedFraming(ResponseText(r))] @@ <<>>

----------------------------------------------------------------------------
(* Properties of the merge cycle (specification CycleSpec).                *)

\* the scrape of the page threw
ScrapeThrew(page) ==
  page = "unreachable" \/ (page \in PageIds /\ ~Scraped[page].ok)

\* C8: scrapeEvents fails hard: once the scrape target was unreachable, or
\* served a page on which the selector matches no element, the caller
\* scrapeAndUpdateEvents has an error, not a result.
C8_ScrapeFailsHard ==
  (cycle.page = "unreachable"
     \/ (cycle.page \in PageIds /\ PageElements(cycle.page) = <<>>)) =>
    /\ cycle.pc = "failed"
    /\ cycle.error # ""

IsPrefix(s, t) == Len(s) <= Len(t) /\ s = SubSeq(t, 1, Len(s))

\* C9: the cycle invokes its steps in the order scrape, sheet read, delta,
\* write; when the scrape fails the cycle ends with the error rethrown, and
\* neither the sheet read nor the write is invoked in that cycle.
C9_CycleOrder ==
  /\ IsPrefix(cycle.log, <<"scrape", "read", "delta", "write">>)
  /\ calls[CycleCall].pc # "idle" => cycle.log = <<"scrape", "read">>
  /\ ScrapeThrew(cycle.page) =>
       /\ cycle.pc = "failed"
       /\ cycle.error # ""
       /\ cycle.log = <<"scrape">>
       /\ calls[CycleCall].pc = "idle"
  /\ cycle.pc = "failed" => ScrapeThrew(cycle.page)

\* a cycle whose scrape threw on an element has ended with that error
\* before any sheet read
C9_Witness ==
  /\ cycle.pc = "failed"
  /\ cycle.page = "broken"
  /\ cycle.error = "RangeError"
  /\ cycle.log = <<"scrape">>

----------------------------------------------------------------------------
(* Properties of filterNewEvents (specification FilterSpec).               *)

\* a canonical record with the name and the start of the scraped event e
Matches(e, canonical) ==
  \E j \in 1..Len(canonical) :
    /\ "evento" \in DOMAIN canonical[j]
    /\ "horario_de_inicio" \in DOMAIN canonical[j]
    /\ canonical[j].evento = e.eventName
    /\ canonical[j].horario_de_inicio = e.startDate

\* C10: filterNewEvents(scraped, canonical) omits a scraped event from the
\* delta if and only if some canonical record has its event name and its
\* start value; an event differing from every canonical record in name or
\* in start is in the delta.
C10_DedupByNameAndStart ==
  filt.applied =>
    /\ \A i \in 1..Len(filt.scraped) :
         (~\E j \in 1..Len(filt.delta) :
              /\ filt.delta[j].evento = filt.scraped[i].eventName
              /\ filt.delta[j].horario_de_inicio = filt.scraped[i].startDate)
           <=> Matches(filt.scraped[i], filt.canonical)
    /\ Len(filt.delta) =
         Cardinality({i \in 1..Len(filt.scraped) :
                        ~Matches(filt.scraped[i], filt.canonical)})

\* of two scraped events with the name of a canonical record, the one with
\* its start is omitted and the one with another start is in the delta
C10_Witness ==
  /\ filt.applied
  /\ Len(filt.scraped) = 2
  /\ Len(filt.delta) = 1
  /\ filt.scraped[1].eventName = filt.scraped[2].eventName
  /\ Matches(filt.scraped[1], filt.canonical)
  /\ filt.delta[1].horario_de_inicio = filt.scraped[2].startDate
  /\ \E j \in 1..Len(filt.canonical) :
       /\ "evento" \in DOMAIN filt.canonical[j]
       /\ filt.canonical[j].evento = filt.scraped[2].eventName

\* the scraped events no canonical record matches, in the scraped order
Retained ==
  SelectSeq(filt.scraped, LAMBDA e : ~Matches(e, filt.canonical))

\* C21: the delta of filterNewEvents has one row per retained scraped event,
\* in the scraped order, in the store's columns: evento the name,
\* tipo_de_evento the tags joined by ', ', start, end, local, description
\* and flyer copied, link_de_inscricao the registration link or the empty
\* string; the delta is never longer than the scraped sequence.
C21_DeltaRows ==
  filt.applied =>
    /\ Len(filt.delta) = Len(Retained)
    /\ Len(filt.delta) <= Len(filt.scraped)
    /\ \A j \in 1..Len(filt.delta) :
         LET row == filt.delta[j]
             e == Retained[j]
         IN /\ DOMAIN row = {"evento", "tipo_de_evento", "horario_de_inicio",
                             "horario_de_termino", "local", "descricao",
                             "flyer", "link_de_inscricao"}
            /\ row.evento = e.eventName
            /\ row.tipo_de_evento = Str(Join(e.tags))
            /\ row.horario_de_inicio = e.startDate
            /\ row.horario_de_termino = e.endDate
            /\ row.local = e.location
            /\ row.descricao = e.description
            /\ row.flyer = e.image
            /\ row.link_de_inscricao =
                 IF e.registrationLink = Undef THEN Str(<<>>)
                 ELSE e.registrationLink

\* two events are retained: the first has no tags and no registration link,
\* the second has the tags a and b and a link
C21_Witness ==
  /\ filt.applied
  /\ Len(filt.scraped) = 2
  /\ Len(filt.delta) = 2
  /\ filt.canonical # <<>>
  /\ filt.scraped[1].registrationLink = Undef
  /\ filt.delta[1].link_de_inscricao = Str(<<>>)
  /\ filt.delta[1].tipo_de_evento = Str(<<>>)
  /\ filt.delta[2].tipo_de_evento = Str(<<"a", ",", " ", "b">>)
  /\ filt.delta[2].link_de_inscricao = Str(sLink)

----------------------------------------------------------------------------
(* Properties of the trigger endpoint (specification CycleSpec).           *)

\* C11: GET answers every settled cycle with a JSON body: status 200 with
\* success true and newEvents the size of the delta when the cycle
\* completed, status 500 with success false and an error message when the
\* cycle threw.
C11_TriggerResponse ==
  ev.type = "response" =>
    /\ ev.cycle.pc \in {"done", "failed"}
    /\ ev.cycle.pc = "done" =>
         /\ ev.response.status = 200
         /\ ev.response.body =
              [success |-> TRUE, newEvents |-> Len(ev.cycle.newEvents)]
    /\ ev.cycle.pc = "failed" =>
         /\ ev.response.status = 500
         /\ ev.response.body.success = FALSE
         /\ ev.response.body.error # ""

\* a cycle whose scrape threw has been answered with a 500
C11_Witness ==
  /\ ev.type = "response"
  /\ ev.cycle.pc = "failed"
  /\ ev.response.status = 500
  /\ ev.response.body = [success |-> FALSE, error |-> "Invalid time value"]

\* C12: over any number of invocations the merge cycle issues at most one
\* scrape fetch, one sheet read and one write-back per invocation (nothing
\* is retried), and the delta of an invocation that stopped between the
\* delta and the write is never written, by that invocation or a later one.
C12_AtMostOnce ==
  /\ cycle.scrapes <= cycle.n
  /\ cycle.reads <= cycle.scrapes
  /\ cycle.writes <= cycle.reads
  /\ cycle.writes = Cardinality(cycle.wrote)
  /\ cycle.wrote \cap cycle.lost = {}
  /\ \A k \in cycle.wrote \cup cycle.lost : k \in 1..cycle.n
  /\ \A step \in {"scrape", "read", "delta", "write"} :
       Cardinality({i \in 1..Len(cycle.log) : cycle.log[i] = step}) <= 1

\* an invocation stopped with its delta unwritten, and a later invocation
\* has written its own
C12_Witness ==
  /\ cycle.lost # {}
  /\ cycle.pc = "write"
  /\ cycle.n \in cycle.wrote
  /\ \E k \in cycle.lost : k < cycle.n /\ k \notin cycle.wrote
  /\ cycle.writes < cycle.reads

----------------------------------------------------------------------------
(* Properties of page preparation and of the Row Normalizer.               *)

\* C13: when the spreadsheet endpoint is unavailable (the fetch fails or the
\* body cannot be decoded), preparing the data of the index page and of the
\* event pages completes without an uncaught error, from the cached rows or
\* from an empty list.
C13_PagesFailSoft ==
  (ev.type = "page" /\ ev.outcome # "ok") => ev.prepared.ok

\* the ISO form of midnight of the day l spells, and of its hour and minute
LiteralMidnight(l) ==
  Pad4(IF l.year <= 99 THEN 1900 + l.year ELSE l.year) \o <<"-">>
    \o Pad2(l.month) \o <<"-">> \o Pad2(l.day)
    \o <<"T", "0", "0", ":", "0", "0", ":", "0", "0", ".", "0", "0", "0", "Z">>

LiteralInstant(l) ==
  Pad4(l.year) \o <<"-">> \o Pad2(l.month) \o <<"-">> \o Pad2(l.day)
    \o <<"T">> \o Pad2(l.hour) \o <<":">> \o Pad2(l.minute)
    \o <<":", "0", "0", ".", "0", "0", "0", "Z">>

\* a row of well-formed cells has been mapped
LiteralMapped == pure.fn = "rows.map" /\ pure.applied /\ pure.literal # NoLiteral

\* C14 as stated: a row with a well-formed DD/MM/YYYY date cell and a
\* well-formed HH:MM time cell gets a UTC timestamp whose year, month, day,
\* hour and minute are the components the two cells spell.
C14_LiteralTimestamp ==
  LiteralMapped =>
    /\ pure.result.ok
    /\ ToISOString(pure.result.val[1].date)
         = Ok(LiteralInstant(pure.literal))

\* C14, amended: such a row gets a date that is midnight UTC of the day,
\* month and year the date cell spells (a year of 0000..0099 is taken as
\* 1900..1999), and, apart from it, a time that is the HH:MM string of the
\* time cell; the hour and minute are in no timestamp.
C14_DateAndTime ==
  LiteralMapped =>
    /\ pure.result.ok
    /\ Len(pure.result.val) = 1
    /\ ToISOString(pure.result.val[1].date)
         = Ok(LiteralMidnight(pure.literal))
    /\ pure.result.val[1].time
         = Str(Pad2(pure.literal.hour) \o <<":">> \o Pad2(pure.literal.minute))

\* 25/12/2024 with 20:00 has been mapped
C14_Witness ==
  /\ LiteralMapped
  /\ pure.literal = [day |-> 25, month |-> 12, year |-> 2024, hour |-> 20,
                     minute |-> 0]
  /\ pure.result.val[1].date = DateV(20082, 0)
  /\ pure.result.val[1].time = Str(sTime1)

\* a table whose rows all carry a cell list has been mapped
CellsMapped ==
  /\ pure.fn = "rows.map"
  /\ pure.applied
  /\ \A i \in 1..Len(pure.rows) : pure.rows[i] # Null

\* C15: the row mapping emits one record per input row, in input order,
\* whatever the cells hold: an unparseable date or time cell gives a null
\* date or time in that record and never aborts the row or the fetch.
C15_OneRecordPerRow ==
  CellsMapped =>
    /\ pure.result.ok
    /\ Len(pure.result.val) = Len(pure.rows)
    /\ \A i \in 1..Len(pure.rows) :
         pure.result.val[i].evento
           = CellOr(pure.rows[i].f.c, 0, Null).val

\* C20: every record getGoogleSheetData returns has a name that is a
\* non-empty string, also for rows whose first cell is missing or empty.
C20_NameNonEmpty ==
  (pure.fn = "rows.map" /\ pure.applied /\ pure.result.ok) =>
    \A i \in 1..Len(pure.result.val) :
      /\ pure.result.val[i].evento.t = "string"
      /\ pure.result.val[i].evento.s # <<>>

----------------------------------------------------------------------------
(* Properties of the label-indexed row mapping (specification LabelSpec).  *)

\* a row has been mapped
LabelMapped == pure.fn = "row.c.forEach" /\ pure.applied

\* the stage the fallback chain prescribes for a string cell: the formatted
\* string when there is one, else the Date literal, else an ISO-8601 parse,
\* else an HH:MM time on the current date, else the raw string
ChainValue(cell, t) ==
  IF Truthy(Prop(cell, "f")) THEN FormattedDate(Prop(cell, "f")).val
  ELSE IF MatchDateLiteral(cell.f.v.s, 1) # <<>>
       THEN LET m == MatchDateLiteral(cell.f.v.s, 1) IN
            DateUTCTime(m[1], m[2], m[3], m[4], m[5], m[6])
  ELSE IF ParseDateString(cell.f.v.s) # InvalidDate
       THEN ParseDateString(cell.f.v.s)
  ELSE IF MatchTime(cell.f.v.s) # <<>>
       THEN TimeToday(t, MatchTime(cell.f.v.s)[1], MatchTime(cell.f.v.s)[2])
  ELSE cell.f.v

\* C16: a string cell is normalized by the first applicable stage of the
\* chain formatted string, Date literal, ISO-8601 parse, HH:MM time, raw
\* string, and that stage's result is stored unchanged.
C16_FirstStageWins ==
  (LabelMapped /\ pure.result.ok) =>
    \A i \in 1..Len(pure.cells) :
      OptProp(pure.cells[i], "v").t = "string" =>
        pure.result.val[i] = ChainValue(pure.cells[i], pure.t)

\* C17: every stage of the chain that fails falls through to the next and
\* the chain ends with a value stored for the cell: a cell whose formatted
\* string is not a well-formed DD/MM/YYYY HH:MM:SS still gets a value, and
\* no cell content makes the row fail.
C17_ChainNeverFails ==
  LabelMapped =>
    /\ pure.result.ok
    /\ Len(pure.result.val) = Len(pure.cells)
    /\ \A i \in 1..Len(pure.cells) : pure.result.val[i] # InvalidDate

----------------------------------------------------------------------------
(* Properties of the image URL transform (specification ImageSpec).        *)

\* the outcome the four cases prescribe for a flyer reference
FourOutcomes(flyer) ==
  IF ~Truthy(flyer) THEN Str(sDefaultImage)
  ELSE IF StartsWith(flyer.s, sDrivePrefix) /\ MatchFileId(flyer.s, 1) # Undef
       THEN Str(sDirect \o MatchFileId(flyer.s, 1).s \o sWidth)
  ELSE IF StartsWith(flyer.s, sHttp) THEN flyer
  ELSE Str(sImagesDir \o flyer.s)

\* C18: the image URL transform gives a drive-hosted reference with an
\* identifier of 25 or more characters the direct-delivery URL of that
\* identifier, returns any other http reference unchanged, gives a bare
\* file name f the path /images/f and gives an absent reference the
\* fallback /images/astro-post.jpg.
C18_FourOutcomes ==
  (pure.fn = "image" /\ pure.applied) =>
    pure.result = Ok(FourOutcomes(pure.flyer))

----------------------------------------------------------------------------
(* Properties of scrapeEvents (specification ScrapeSpec).                  *)

\* s is YYYY-MM-DDTHH:MM:SS.000Z and names an instant
IsIsoTimestamp(s) ==
  /\ Len(s) = 24
  /\ SubSeq(s, 20, 24) = <<".", "0", "0", "0", "Z">>
  /\ ParseDateString(SubSeq(s, 1, 19) \o <<"Z">>) # InvalidDate

\* C19: every event scrapeEvents returns has endDate equal to startDate,
\* both valid ISO timestamp strings, no tags, the location El Cabong, and as
\* image the element's source attribute, or the default image path when the
\* attribute is absent (or empty).
C19_EventShape ==
  (pure.fn = "scrapeEvents" /\ pure.applied /\ pure.result.ok) =>
    /\ Len(pure.result.val) = Len(pure.elements)
    /\ \A i \in 1..Len(pure.result.val) :
         LET e == pure.result.val[i]
             el == pure.elements[i]
         IN /\ e.endDate = e.startDate
            /\ e.startDate.t = "string"
            /\ IsIsoTimestamp(e.startDate.s)
            /\ e.tags = <<>>
            /\ e.location = Str(sElCabong)
            /\ e.image = IF Truthy(el.src) THEN el.src
                         ELSE Str(sDefaultImage)

\* a page of two elements, one with an image source and one without, has
\* been scraped
C19_Witness ==
  /\ pure.fn = "scrapeEvents"
  /\ pure.applied
  /\ pure.result.ok
  /\ Len(pure.result.val) = 2
  /\ pure.elements[1].src = Undef
  /\ pure.result.val[1].image = Str(sDefaultImage)
  /\ pure.result.val[2].image = pure.elements[2].src
  /\ pure.result.val[2].image # Str(sDefaultImage)

----------------------------------------------------------------------------
(* Properties of the merge cycle's delta and of the write-back             *)
(* (specification CycleSpec).                                              *)

\* the row getGoogleSheetData returned has the name of the scraped event e
\* and a date and time that are the instant of its start
SameNameAndInstant(row, e) ==
  /\ row.evento = e.eventName
  /\ row.date.t = "date"
  /\ row.time.t = "string"
  /\ ParseDateString(SubSeq(e.startDate.s, 1, 19) \o <<"Z">>)
       = DateV(row.date.day,
               DecimalValue(SubSeq(row.time.s, 1, 2)) * 3600
                 + DecimalValue(SubSeq(row.time.s, 4, 5)) * 60)

\* C22: within one cycle, a scraped event whose name and start instant are
\* those of a row getGoogleSheetData returned for the canonical tab is not
\* in the delta handed to updateGoogleSheet.
C22_CycleDedup ==
  cycle.pc \in {"write", "done"} =>
    \A i \in 1..Len(cycle.events), j \in 1..Len(cycle.existing) :
      SameNameAndInstant(cycle.existing[j], cycle.events[i]) =>
        \A k \in 1..Len(cycle.newEvents) :
          ~(/\ cycle.newEvents[k].evento = cycle.events[i].eventName
            /\ cycle.newEvents[k].horario_de_inicio
                 = cycle.events[i].startDate)

----------------------------------------------------------------------------
(* Properties of the cache state (specification Spec).                     *)

\* the step just taken is a successful return of getGoogleSheetData for k
SucceededFor(k) == ev'.type = "return" /\ ev'.outcome = "ok" /\ ev'.key = k

\* the step just taken is handleWebhookUpdate's cache.delete(k)
InvalidatedFor(k) == ev'.type = "start" /\ ev'.via = "webhook" /\ ev'.key = k

\* what one step does to the entry of k
EntryLifecycle(k) ==
  /\ (~Has(cache, k) /\ Has(cache', k)) => SucceededFor(k)
  /\ (Has(cache, k) /\ ~Has(cache', k)) => InvalidatedFor(k)
  /\ SucceededFor(k) =>
       /\ Has(cache', k)
       /\ cache'[k] = [data |-> ev'.result, timestamp |-> now,
                       version |-> currentVersion']
  /\ InvalidatedFor(k) => ~Has(cache', k)
  /\ (Has(cache, k) /\ Has(cache', k) /\ ~SucceededFor(k)) =>
       cache'[k] = cache[k]

StepOfFailingCall ==
  \/ ev'.type = "start" /\ ev'.via # "webhook"
  \/ \E c \in DOMAIN calls : calls[c].pc = "fetch" /\ calls'[c].pc = "text"
  \/ ev'.type = "return" /\ ev'.outcome # "ok"

\* C26: no step of a getGoogleSheetData call other than the end of its try
\* block changes any key's entry, currentVersion or lastModified; a call
\* that ends in the catch block has changed none of them.
C26_FailureFrame ==
  [][StepOfFailingCall => UNCHANGED <<cache, currentVersion, lastModified>>]_vars

\* a call has failed while the cache held an entry of a refresh made after
\* the module was loaded
C26_Witness ==
  /\ ev.type = "return"
  /\ ev.outcome \in Failures
  /\ cache # <<>>
  /\ lastModified > 0
  /\ ev.before = [cache |-> cache, currentVersion |-> currentVersion,
                  lastModified |-> lastModified]

\* C27: currentVersion is the number of successful refreshes so far (the
\* versions given are 1, 2, ..., currentVersion, one per refresh), every
\* entry's version lies between 1 and currentVersion, no two entries have
\* the same version, and the entry with version currentVersion has
\* lastModified as its timestamp.
C27_VersionInvariant ==
  /\ assigned = 1..currentVersion
  /\ \A k \in DOMAIN cache : cache[k].version \in 1..currentVersion
  /\ \A k1, k2 \in DOMAIN cache :
       cache[k1].version = cache[k2].version => k1 = k2
  /\ \A k \in DOMAIN cache :
       cache[k].version = currentVersion => cache[k].timestamp = lastModified

\* after three refreshes both keys have entries, an older one among them,
\* and the call returning now was overtaken by another call for its key
C27_Witness ==
  /\ currentVersion = MaxVersion
  /\ Cardinality(DOMAIN cache) = 2
  /\ \E k \in DOMAIN cache :
       cache[k].version < currentVersion /\ cache[k].timestamp # lastModified
  /\ ev.type = "return"
  /\ ev.outcome = "ok"
  /\ ev.raced

\* (specification InvalidationSpec)
\* C28: the entry of a key is never written by a getGoogleSheetData call
\* that issued its fetch before handleWebhookUpdate deleted that key.
C28_NoStaleInstall ==
  ~(/\ ev.type = "return"
    /\ ev.outcome = "ok"
    /\ ev.stale
    /\ Has(cache, ev.key)
    /\ cache[ev.key].data = ev.result)

\* the refetch of handleWebhookUpdate has failed
WebhookFailed ==
  ev.type = "return" /\ ev.via = "webhook" /\ ev.outcome \in Failures

\* the step just taken is handleWebhookUpdate up to the await of its fetch
WebhookStarts == ev'.type = "start" /\ ev'.via = "webhook"

----------------------------------------------------------------------------
(* Properties of the label-indexed Sheet Client (specification             *)
(* LabelClientSpec).                                                       *)

\* C24: a label-indexed call that fails returns the rows of the entry its
\* key had when it failed, and [] when the key had none.
C24_LabelFailSoft ==
  (ev.type = "return" /\ ev.via = "label" /\ ev.outcome # "ok") =>
    ev.result = CachedOrEmpty(ev.before.cache, ev.key)

----------------------------------------------------------------------------
(* Properties of consecutive merge cycles (specification RepeatSpec).      *)

\* the cycle now running has been served the page and has had the sheet
\* read end the way the cycle before it had
SameSources ==
  /\ pure.last.pc = "done"
  /\ cycle.page = pure.last.page
  /\ cycle.read = pure.last.read

\* the step is the call of updateGoogleSheet
CallsUpdate == cycle.pc = "merge" /\ cycle'.pc = "write"

\* C25: the call of updateGoogleSheet leaves the cache, currentVersion and
\* lastModified as they were, and a cycle that is served the same page and
\* whose sheet read ends the same way as the cycle before it computes the
\* same delta and returns the same count.
C25_WriteBackNoOp ==
  /\ [][CallsUpdate => UNCHANGED <<cache, currentVersion, lastModified>>]_vars
  /\ [](SameSources =>
          /\ cycle.pc \in {"write", "done"} =>
                cycle.newEvents = pure.last.newEvents
          /\ cycle.pc = "done" => cycle.result = pure.last.result)

\* two consecutive cycles over the same sources have both handed a delta
\* that is not empty to updateGoogleSheet
C25_Witness ==
  /\ SameSources
  /\ cycle.pc = "done"
  /\ cycle.result > 0
  /\ cycle.wrote = {cycle.n - 1, cycle.n}
  /\ cycle.read.outcome = "ok"


\* the trigger endpoint has answered a cycle whose scrape gave events and
\* whose sheet read failed while the canonical tab had no cache entry
ReadFailedUncached ==
  /\ ev.type = "response"
  /\ ev.cycle.read.outcome \in Failures
  /\ ~Has(cache, CacheKey(SHEET_ID, EventsGid))

====
